---- MODULE Spec2Model ----
(***************************************************************************)
(* Verification model of the gnomAD sample / variant QC pipeline.          *)
(*                                                                         *)
(* Hail expressions are three-valued: a field is a value or missing.       *)
(* Missing is the string NA; booleans are the strings "T", "F" and NA and  *)
(* are combined with Kleene's connectives, as Hail's ~, & and | do.        *)
(* A Python Optional argument is << >> (None) or <<v>>.                    *)
(***************************************************************************)
EXTENDS Integers, Sequences, FiniteSets, TLC

\* ------------------------------------------------------------------ bounds
NumSamples == 2
MaxNumber == 2
MaxIter == 3

Samples == 1..NumSamples

\* ------------------------------------------------- three-valued expressions
NA == "NA"
Bool3 == {"T", "F", NA}
B3(b) == IF b THEN "T" ELSE "F"
IsDefined(x) == x # NA
Not3(a) == IF a = NA THEN NA ELSE IF a = "T" THEN "F" ELSE "T"
And3(a, b) ==
    IF a = "F" \/ b = "F" THEN "F"
    ELSE IF a = NA \/ b = NA THEN NA ELSE "T"
Or3(a, b) ==
    IF a = "T" \/ b = "T" THEN "T"
    ELSE IF a = NA \/ b = NA THEN NA ELSE "F"
Eq3(a, b) == IF a = NA \/ b = NA THEN NA ELSE B3(a = b)
Neq3(a, b) == Not3(Eq3(a, b))
OrMissing(c, v) == IF c = "T" THEN v ELSE NA

None == << >>
Some(v) == <<v>>
Val(o) == o[1]

\* a ratio n / d is the pair <<n, d>>, d > 0
Gt(a, b) == a[1] * b[2] > b[1] * a[2]

\* hl.agg.count_where(c): the rows where c is true (a missing c is not counted)
CountWhere(S, c) == Cardinality({s \in S : c[s] = "T"})

VARIABLES
    \* assign_ancestry.py, assign_pops
    ap_pc, joint_meta, max_number_mislabeled_training_samples,
    max_proportion_mislabeled_training_samples, withhold_prop,
    max_mislabeled, pop_pca_scores_ht, pop_ht, n_mislabeled_samples,
    prop_mislabeled_samples, mislabeled, pop_assignment_iter, n_fits,
    first_fit, ap_error, ap_globals,
    \* relatedness.py, main --compute-related-samples-to-drop
    rel_pc, rel_joint_qc_meta, relatedness_ht, rank_ht, pca_samples_rankings,
    pca_related_samples_to_drop, rel_error, rel_run, rel_first_run,
    \* create_hgdp_tgp_subset.py, prepare_variant_annotations
    va_pc, release_freq_meta, release_freq, release_freq_index_dict,
    gnomad_freq, gnomad_freq_meta, gnomad_freq_index_dict,
    \* hard_filters.py, compute_hard_filters
    hf_pc, hf_args, hf_sample, hard_filters, sample_qc_metric_hard_filters,
    hf_in_table, hf_error,
    \* create_sample_qc_metadata_ht.py, main
    mt_pc, mt_sample, sample_filters_ht, meta_ht,
    \* generate_freq_data.py, main
    fq_pc, subsets, invalid_subsets, n_subsets_use_subpops, fq_read,
    fq_pop_expr, fq_error,
    \* create_hgdp_tgp_subset.py, prepare_sample_annotations
    rs_pc, subset_samples, hgdp_tgp_relatedness, rs_relatedness_ht,
    relatedness_set_ht, related_samples,
    \* create_sample_qc_metadata_ht.py, annotate_relatedness
    rd_pc, rd_data_type, rd_relatedness_ht, relatedness_dict_ht,
    relationships,
    \* create_hgdp_tgp_subset.py, main
    ts_pc, ts_args, ts_files_before, ts_files, ts_written, ts_error,
    \* create_hgdp_tgp_subset.py, variant annotation table and dense MT
    dm_pc, sparse_rows, variant_annotation_ht, dense_mt_rows,
    \* create_hgdp_tgp_subset.py, get_sample_qc_filter_struct_expr
    oq_pc, oq_ht, set_to_remove, num_outliers, num_outliers_found, pop_outlier, oq_error,
    \* hard_filters.py, compute_hard_filters, ADJ callrate
    cr_pc, qc_mt, num_samples, qc_rows, num_variants, callrate_adj,
    \* subpop_analysis.py, main
    sp_pc, sp_args, sp_meta, sp_mt_cols, pca_samples, sp_error,
    \* interval_qc.py, filter_to_test
    ft_pc, ft_mt_in, ft_sex_mt_in, ft_mt, ft_sex_mt,
    \* assign_ancestry.py, main
    am_pc, am_overwrite, am_pop_ht, am_rf_model, pop_ht_file, pop_tsv_file, pop_rf_file,
    \* interval_qc.py, __main__ and main
    iq_pc, iq_args, iq_main_calls, iq_writes, iq_error,
    \* create_sample_qc_metadata_ht.py, add_annotations
    aa_pc, aa_ht, aa_ann_ht, ht_missing, ann_ht_missing, sample_count_match, aa_warned, aa_out

apVars == <<ap_pc, joint_meta, max_number_mislabeled_training_samples,
            max_proportion_mislabeled_training_samples, withhold_prop,
            max_mislabeled, pop_pca_scores_ht, pop_ht, n_mislabeled_samples,
            prop_mislabeled_samples, mislabeled, pop_assignment_iter, n_fits,
            first_fit, ap_error, ap_globals>>

relVars == <<rel_pc, rel_joint_qc_meta, relatedness_ht, rank_ht,
             pca_samples_rankings, pca_related_samples_to_drop, rel_error,
             rel_run, rel_first_run>>

vaVars == <<va_pc, release_freq_meta, release_freq, release_freq_index_dict,
            gnomad_freq, gnomad_freq_meta, gnomad_freq_index_dict>>

hfVars == <<hf_pc, hf_args, hf_sample, hard_filters,
            sample_qc_metric_hard_filters, hf_in_table, hf_error>>

mtVars == <<mt_pc, mt_sample, sample_filters_ht, meta_ht>>

fqVars == <<fq_pc, subsets, invalid_subsets, n_subsets_use_subpops, fq_read,
           fq_pop_expr, fq_error>>

rsVars == <<rs_pc, subset_samples, hgdp_tgp_relatedness, rs_relatedness_ht,
            relatedness_set_ht, related_samples>>

rdVars == <<rd_pc, rd_data_type, rd_relatedness_ht, relatedness_dict_ht,
            relationships>>

tsVars == <<ts_pc, ts_args, ts_files_before, ts_files, ts_written, ts_error>>

dmVars == <<dm_pc, sparse_rows, variant_annotation_ht, dense_mt_rows>>

oqVars == <<oq_pc, oq_ht, set_to_remove, num_outliers, num_outliers_found, pop_outlier, oq_error>>

crVars == <<cr_pc, qc_mt, num_samples, qc_rows, num_variants, callrate_adj>>

spVars == <<sp_pc, sp_args, sp_meta, sp_mt_cols, pca_samples, sp_error>>

ftVars == <<ft_pc, ft_mt_in, ft_sex_mt_in, ft_mt, ft_sex_mt>>

amVars == <<am_pc, am_overwrite, am_pop_ht, am_rf_model, pop_ht_file, pop_tsv_file, pop_rf_file>>

iqVars == <<iq_pc, iq_args, iq_main_calls, iq_writes, iq_error>>

aaVars == <<aa_pc, aa_ht, aa_ann_ht, ht_missing, ann_ht_missing, sample_count_match, aa_warned, aa_out>>

vars == <<apVars, relVars, vaVars, hfVars, mtVars, fqVars, rsVars, rdVars, tsVars, dmVars, oqVars, crVars, spVars, ftVars, amVars, iqVars, aaVars>>
\* what each script leaves alone
notApVars == <<relVars, vaVars, hfVars, mtVars, fqVars, rsVars, rdVars, tsVars, dmVars, oqVars, crVars, spVars, ftVars, amVars, iqVars, aaVars>>
notRelVars == <<apVars, vaVars, hfVars, mtVars, fqVars, rsVars, rdVars, tsVars, dmVars, oqVars, crVars, spVars, ftVars, amVars, iqVars, aaVars>>
notVaVars == <<apVars, relVars, hfVars, mtVars, fqVars, rsVars, rdVars, tsVars, dmVars, oqVars, crVars, spVars, ftVars, amVars, iqVars, aaVars>>
notHfVars == <<apVars, relVars, vaVars, mtVars, fqVars, rsVars, rdVars, tsVars, dmVars, oqVars, crVars, spVars, ftVars, amVars, iqVars, aaVars>>
notMtVars == <<apVars, relVars, vaVars, hfVars, fqVars, rsVars, rdVars, tsVars, dmVars, oqVars, crVars, spVars, ftVars, amVars, iqVars, aaVars>>
notFqVars == <<apVars, relVars, vaVars, hfVars, mtVars, rsVars, rdVars, tsVars, dmVars, oqVars, crVars, spVars, ftVars, amVars, iqVars, aaVars>>
notRelSetVars == <<apVars, relVars, vaVars, hfVars, mtVars, fqVars, rdVars, tsVars, dmVars, oqVars, crVars, spVars, ftVars, amVars, iqVars, aaVars>>
notRelDictVars == <<apVars, relVars, vaVars, hfVars, mtVars, fqVars, rsVars, tsVars, dmVars, oqVars, crVars, spVars, ftVars, amVars, iqVars, aaVars>>
notSubsetVars == <<apVars, relVars, vaVars, hfVars, mtVars, fqVars, rsVars, rdVars, dmVars, oqVars, crVars, spVars, ftVars, amVars, iqVars, aaVars>>
notDenseVars == <<apVars, relVars, vaVars, hfVars, mtVars, fqVars, rsVars, rdVars, tsVars, oqVars, crVars, spVars, ftVars, amVars, iqVars, aaVars>>
notOutliersVars == <<apVars, relVars, vaVars, hfVars, mtVars, fqVars, rsVars, rdVars, tsVars, dmVars, crVars, spVars, ftVars, amVars, iqVars, aaVars>>
notCallrateVars == <<apVars, relVars, vaVars, hfVars, mtVars, fqVars, rsVars, rdVars, tsVars, dmVars, oqVars, spVars, ftVars, amVars, iqVars, aaVars>>
notSubpopVars == <<apVars, relVars, vaVars, hfVars, mtVars, fqVars, rsVars, rdVars, tsVars, dmVars, oqVars, crVars, ftVars, amVars, iqVars, aaVars>>
notFilterToTestVars == <<apVars, relVars, vaVars, hfVars, mtVars, fqVars, rsVars, rdVars, tsVars, dmVars, oqVars, crVars, spVars, amVars, iqVars, aaVars>>
notAssignMainVars == <<apVars, relVars, vaVars, hfVars, mtVars, fqVars, rsVars, rdVars, tsVars, dmVars, oqVars, crVars, spVars, ftVars, iqVars, aaVars>>
notIntervalQcVars == <<apVars, relVars, vaVars, hfVars, mtVars, fqVars, rsVars, rdVars, tsVars, dmVars, oqVars, crVars, spVars, ftVars, amVars, aaVars>>
notAddAnnotationsVars == <<apVars, relVars, vaVars, hfVars, mtVars, fqVars, rsVars, rdVars, tsVars, dmVars, oqVars, crVars, spVars, ftVars, amVars, iqVars>>

\* ===================================================== assign_ancestry.py
PopLabels == {"afr", "nfe"}
missing_label == "unassigned"
Proportions == {<<0, 1>>, <<1, 2>>}

\* rows of joint_qc_meta.v3_meta as prep_ht_for_rf reads them
V3MetaRows ==
    { [v3_project_pop |-> NA,    v3_pop |-> NA,    hgdp |-> NA,  tgp |-> NA],
      [v3_project_pop |-> "afr", v3_pop |-> "afr", hgdp |-> "T", tgp |-> "F"],
      [v3_project_pop |-> "nfe", v3_pop |-> "oth", hgdp |-> "F", tgp |-> "T"],
      [v3_project_pop |-> NA,    v3_pop |-> "nfe", hgdp |-> "F", tgp |-> "F"],
      [v3_project_pop |-> NA,    v3_pop |-> "oth", hgdp |-> "F", tgp |-> "F"] }

\* hl.case().when(c1, v1).when(c2, v2).or_missing(): a missing predicate
\* makes the whole case missing
TrainingPopExpr(m) ==
    IF IsDefined(m.v3_project_pop) THEN m.v3_project_pop
    ELSE IF Neq3(m.v3_pop, "oth") = "T" THEN m.v3_pop
    ELSE NA

PrepRow(m) ==
    [training_pop |-> TrainingPopExpr(m),
     hgdp_or_tgp |-> Or3(m.hgdp, m.tgp),
     original_training_pop |-> TrainingPopExpr(m),
     withheld_sample |-> NA]

\* variant: original_training_pop is annotated after the withholding
prep_ht_for_rf_original_late(meta, withhold, keep) ==
    [s \in Samples |->
        LET r == PrepRow(meta[s])
            tp == IF withhold
                  THEN OrMissing(And3(B3(IsDefined(r.training_pop)), B3(keep[s])),
                                 r.training_pop)
                  ELSE r.training_pop
        IN  [r EXCEPT !.training_pop = tp,
                      !.original_training_pop = tp,
                      !.withheld_sample = IF withhold THEN "F" ELSE NA]]

\* prep_ht_for_rf: keep[s] is the draw of hl.rand_bool(1.0 - withhold_prop)
prep_ht_for_rf(meta, withhold, keep) ==
    [s \in Samples |->
        LET r == PrepRow(meta[s])
            tp == IF withhold
                  THEN OrMissing(And3(B3(IsDefined(r.training_pop)), B3(keep[s])),
                                 r.training_pop)
                  ELSE r.training_pop
        IN  [r EXCEPT !.training_pop = tp,
                      !.withheld_sample =
                          IF withhold
                          THEN And3(B3(IsDefined(r.original_training_pop)),
                                    Not3(B3(IsDefined(tp))))
                          ELSE NA]]

\* assign_population_pcs: the classifier labels every sample; pred is its output
assign_population_pcs(scores, pred) ==
    [s \in Samples |-> [training_pop |-> scores[s].training_pop, pop |-> pred[s]]]

\* variant: the proportion taken over all samples of the table
calculate_mislabeled_training_over_total(ht) ==
    LET n_mislabeled ==
            CountWhere(Samples,
                       [s \in Samples |-> Neq3(ht[s].training_pop, ht[s].pop)])
    IN  <<n_mislabeled, <<n_mislabeled, Cardinality(Samples)>> >>

\* variant: the division is guarded, an empty training set gives 0
calculate_mislabeled_training_guarded(ht) ==
    LET n_mislabeled ==
            CountWhere(Samples,
                       [s \in Samples |-> Neq3(ht[s].training_pop, ht[s].pop)])
        defined_training_pops ==
            CountWhere(Samples,
                       [s \in Samples |-> B3(IsDefined(ht[s].training_pop))])
    IN  <<n_mislabeled,
          <<n_mislabeled,
            IF defined_training_pops = 0 THEN 1 ELSE defined_training_pops>> >>

\* the pair <<n_mislabeled_samples, prop_mislabeled_samples>>
calculate_mislabeled_training(ht) ==
    LET n_mislabeled ==
            CountWhere(Samples,
                       [s \in Samples |-> Neq3(ht[s].training_pop, ht[s].pop)])
        defined_training_pops ==
            CountWhere(Samples,
                       [s \in Samples |-> B3(IsDefined(ht[s].training_pop))])
    IN  <<n_mislabeled, <<n_mislabeled, defined_training_pops>> >>

Truthy(o) == o # None /\ Val(o) # 0

\* variant: the proportion is compared in both modes
SelectMislabeledAlwaysProp(maxn, n, prop) == prop

\* n_mislabeled_samples if max_number_mislabeled_training_samples else prop
SelectMislabeled(maxn, n, prop) == IF Truthy(maxn) THEN <<n, 1>> ELSE prop

\* an int argument k is held as the ratio <<k, 1>>
AsRatio(o) == IF o = None THEN None ELSE Some(<<Val(o), 1>>)

\* variant: the loop also runs when the metric equals the maximum
WhileCondGe(m, maxm) == ~Gt(Val(maxm), m)

\* while mislabeled > max_mislabeled
WhileCond(m, maxm) == Gt(m, Val(maxm))

\* variant: reference-cohort samples are pruned like any other
PruneRowNoReference(row, fit) ==
    [row EXCEPT !.training_pop =
        OrMissing(Eq3(fit.training_pop, fit.pop), row.training_pop)]

\* the re-annotation of training_pop inside the loop
PruneRow(row, fit) ==
    [row EXCEPT !.training_pop =
        OrMissing(Or3(Eq3(fit.training_pop, fit.pop), row.hgdp_or_tgp),
                  row.training_pop)]

Inc(c) == IF c < MaxIter THEN c + 1 ELSE c

IdlePops ==
    /\ ap_pc = "idle"
    /\ joint_meta = << >>
    /\ max_number_mislabeled_training_samples = None
    /\ max_proportion_mislabeled_training_samples = None
    /\ withhold_prop = FALSE
    /\ max_mislabeled = None
    /\ pop_pca_scores_ht = << >>
    /\ pop_ht = << >>
    /\ n_mislabeled_samples = 0
    /\ prop_mislabeled_samples = <<0, 1>>
    /\ mislabeled = <<0, 1>>
    /\ pop_assignment_iter = 0
    /\ n_fits = 0
    /\ first_fit = << >>
    /\ ap_error = "none"
    /\ ap_globals = << >>

StartPops ==
    /\ ap_pc = "args"
    /\ joint_meta \in [Samples -> V3MetaRows]
    /\ max_number_mislabeled_training_samples \in
           {None} \cup {Some(k) : k \in 0..MaxNumber}
    /\ max_proportion_mislabeled_training_samples \in
           {None} \cup {Some(r) : r \in Proportions}
    /\ withhold_prop \in BOOLEAN
    /\ max_mislabeled = None
    /\ pop_pca_scores_ht = << >>
    /\ pop_ht = << >>
    /\ n_mislabeled_samples = 0
    /\ prop_mislabeled_samples = <<0, 1>>
    /\ mislabeled = <<0, 1>>
    /\ pop_assignment_iter = 0
    /\ n_fits = 0
    /\ first_fit = << >>
    /\ ap_error = "none"
    /\ ap_globals = << >>

\* variant: the test looks at the number alone
ArgsNumberOnly ==
    /\ max_number_mislabeled_training_samples # None
    /\ max_proportion_mislabeled_training_samples = None

ArgsBothSet ==
    /\ max_number_mislabeled_training_samples # None
    /\ max_proportion_mislabeled_training_samples # None

RaiseBothSet ==
    /\ ap_pc = "args"
    /\ ArgsBothSet
    /\ ap_pc' = "raised"
    /\ ap_error' = "ValueError"
    /\ UNCHANGED <<joint_meta, max_number_mislabeled_training_samples,
                   max_proportion_mislabeled_training_samples, withhold_prop,
                   max_mislabeled, pop_pca_scores_ht, pop_ht,
                   n_mislabeled_samples, prop_mislabeled_samples, mislabeled,
                   pop_assignment_iter, n_fits, first_fit, ap_globals>>
    /\ UNCHANGED notApVars

PrepareTable ==
    /\ ap_pc = "args"
    /\ ~ArgsBothSet
    /\ max_mislabeled' =
           IF max_proportion_mislabeled_training_samples # None
           THEN max_proportion_mislabeled_training_samples
           ELSE AsRatio(max_number_mislabeled_training_samples)
    /\ \E keep \in [Samples -> BOOLEAN] :
           /\ (~withhold_prop => \A s \in Samples : keep[s])
           /\ pop_pca_scores_ht' = prep_ht_for_rf(joint_meta, withhold_prop, keep)
    /\ ap_pc' = "fit"
    /\ UNCHANGED <<joint_meta, max_number_mislabeled_training_samples,
                   max_proportion_mislabeled_training_samples, withhold_prop,
                   pop_ht, n_mislabeled_samples, prop_mislabeled_samples,
                   mislabeled, pop_assignment_iter, n_fits, first_fit,
                   ap_error, ap_globals>>
    /\ UNCHANGED notApVars

\* one call of assign_population_pcs followed by calculate_mislabeled_training
FitAndCount(pred) ==
    LET fit == assign_population_pcs(pop_pca_scores_ht, pred)
        res == calculate_mislabeled_training(fit)
    IN  /\ pop_ht' = fit
        /\ n_fits' = Inc(n_fits)
        /\ IF res[2][2] = 0
           THEN /\ ap_pc' = "raised"
                /\ ap_error' = "ZeroDivisionError"
                /\ UNCHANGED <<n_mislabeled_samples, prop_mislabeled_samples,
                               mislabeled, first_fit>>
           ELSE /\ n_mislabeled_samples' = res[1]
                /\ prop_mislabeled_samples' = res[2]
                /\ mislabeled' =
                       SelectMislabeled(max_number_mislabeled_training_samples,
                                        res[1], res[2])
                /\ first_fit' = IF first_fit = << >> THEN res[2] ELSE first_fit
                /\ ap_pc' = "while"
                /\ UNCHANGED ap_error

FirstFit ==
    /\ ap_pc = "fit"
    /\ \E pred \in [Samples -> PopLabels \cup {missing_label}] : FitAndCount(pred)
    /\ pop_assignment_iter' = 1
    /\ UNCHANGED <<joint_meta, max_number_mislabeled_training_samples,
                   max_proportion_mislabeled_training_samples, withhold_prop,
                   max_mislabeled, pop_pca_scores_ht, ap_globals>>
    /\ UNCHANGED notApVars

WhileTypeError ==
    /\ ap_pc = "while"
    /\ max_mislabeled = None
    /\ ap_pc' = "raised"
    /\ ap_error' = "TypeError"
    /\ UNCHANGED <<joint_meta, max_number_mislabeled_training_samples,
                   max_proportion_mislabeled_training_samples, withhold_prop,
                   max_mislabeled, pop_pca_scores_ht, pop_ht,
                   n_mislabeled_samples, prop_mislabeled_samples, mislabeled,
                   pop_assignment_iter, n_fits, first_fit, ap_globals>>
    /\ UNCHANGED notApVars

PruneMislabeled ==
    /\ ap_pc = "while"
    /\ max_mislabeled # None
    /\ WhileCond(mislabeled, max_mislabeled)
    /\ pop_assignment_iter' = Inc(pop_assignment_iter)
    /\ pop_pca_scores_ht' =
           [s \in Samples |-> PruneRow(pop_pca_scores_ht[s], pop_ht[s])]
    /\ ap_pc' = "refit"
    /\ UNCHANGED <<joint_meta, max_number_mislabeled_training_samples,
                   max_proportion_mislabeled_training_samples, withhold_prop,
                   max_mislabeled, pop_ht, n_mislabeled_samples,
                   prop_mislabeled_samples, mislabeled, n_fits, first_fit,
                   ap_error, ap_globals>>
    /\ UNCHANGED notApVars

Refit ==
    /\ ap_pc = "refit"
    /\ \E pred \in [Samples -> PopLabels \cup {missing_label}] : FitAndCount(pred)
    /\ UNCHANGED <<joint_meta, max_number_mislabeled_training_samples,
                   max_proportion_mislabeled_training_samples, withhold_prop,
                   max_mislabeled, pop_pca_scores_ht, pop_assignment_iter,
                   ap_globals>>
    /\ UNCHANGED notApVars

ReturnPops ==
    /\ ap_pc = "while"
    /\ max_mislabeled # None
    /\ ~WhileCond(mislabeled, max_mislabeled)
    /\ ap_globals' =
           [max_mislabeled |-> max_mislabeled,
            pop_assignment_iterations |-> pop_assignment_iter,
            n_mislabeled_training_samples |-> n_mislabeled_samples,
            prop_mislabeled_training_samples |-> prop_mislabeled_samples,
            original_training_pop |->
                [s \in Samples |-> pop_pca_scores_ht[s].original_training_pop]]
    /\ ap_pc' = "returned"
    /\ UNCHANGED <<joint_meta, max_number_mislabeled_training_samples,
                   max_proportion_mislabeled_training_samples, withhold_prop,
                   max_mislabeled, pop_pca_scores_ht, pop_ht,
                   n_mislabeled_samples, prop_mislabeled_samples, mislabeled,
                   pop_assignment_iter, n_fits, first_fit, ap_error>>
    /\ UNCHANGED notApVars

StepPops ==
    \/ RaiseBothSet
    \/ PrepareTable
    \/ FirstFit
    \/ WhileTypeError
    \/ PruneMislabeled
    \/ Refit
    \/ ReturnPops

\* ========================================================= relatedness.py
second_degree_kin_cutoff == 10
KinValues == {0, 10, 20}
Pairs == {p \in Samples \X Samples : p[1] < p[2]}

\* the fields of joint_qc_meta that the stage reads
RankMetaRows ==
    [hard_filtered : BOOLEAN, releasable : BOOLEAN,
     chr20_mean_dp : {20, 30}, v3_meta_defined : BOOLEAN]

\* rank_ht.select(hard_filtered, releasable, chr20_mean_dp, present_in_v3=...)
SelectRankInputs(meta) ==
    [fields |-> {"s", "hard_filtered", "releasable", "chr20_mean_dp",
                 "present_in_v3"},
     rows |-> [s \in Samples |->
                 [hard_filtered |-> meta[s].hard_filtered,
                  releasable |-> meta[s].releasable,
                  chr20_mean_dp |-> meta[s].chr20_mean_dp,
                  present_in_v3 |-> meta[s].v3_meta_defined]]]

Num(b) == IF b THEN 1 ELSE 0
\* variant: chr20_mean_dp ascending
SortKeyAscDp(r) ==
    <<Num(r.hard_filtered), 1 - Num(r.present_in_v3 /\ r.releasable),
      1 - Num(r.releasable), r.chr20_mean_dp>>

\* order_by(asc(hard_filtered), desc(present_in_v3 & releasable),
\*          desc(releasable), desc(chr20_mean_dp))
SortKey(r) ==
    <<Num(r.hard_filtered), 1 - Num(r.present_in_v3 /\ r.releasable),
      1 - Num(r.releasable), 0 - r.chr20_mean_dp>>
LexLess(a, b) ==
    \E k \in 1..Len(a) : a[k] < b[k] /\ \A l \in 1..(k - 1) : a[l] = b[l]

\* the indexes add_index can give after the sort: rows with equal sort
\* fields come out in either order
Rankings(rows) ==
    {r \in [Samples -> 0..(NumSamples - 1)] :
        /\ \A s, t \in Samples : s # t => r[s] # r[t]
        /\ \A s, t \in Samples :
               LexLess(SortKey(rows[s]), SortKey(rows[t])) => r[s] < r[t]}

IdleRelated ==
    /\ rel_pc = "idle"
    /\ rel_joint_qc_meta = << >>
    /\ relatedness_ht = << >>
    /\ rank_ht = << >>
    /\ pca_samples_rankings = None
    /\ pca_related_samples_to_drop = None
    /\ rel_error = "none"
    /\ rel_run = 0
    /\ rel_first_run = << >>

StartRelated ==
    /\ rel_pc = "rank"
    /\ rel_joint_qc_meta \in [Samples -> RankMetaRows]
    /\ relatedness_ht \in [Pairs -> KinValues]
    /\ rank_ht = << >>
    /\ pca_samples_rankings = None
    /\ pca_related_samples_to_drop = None
    /\ rel_error = "none"
    /\ rel_run = 1
    /\ rel_first_run = << >>

\* select, order_by, add_index(name="rank"), key_by(s)
RankSamples ==
    /\ rel_pc = "rank"
    /\ LET sel == SelectRankInputs(rel_joint_qc_meta)
       IN  \E r \in Rankings(sel.rows) :
               rank_ht' =
                   [fields |-> sel.fields \cup {"rank"},
                    rows |-> [s \in Samples |->
                                [hard_filtered |-> sel.rows[s].hard_filtered,
                                 releasable |-> sel.rows[s].releasable,
                                 chr20_mean_dp |-> sel.rows[s].chr20_mean_dp,
                                 present_in_v3 |-> sel.rows[s].present_in_v3,
                                 rank |-> r[s]]]]
    /\ rel_pc' = "select"
    /\ UNCHANGED <<rel_joint_qc_meta, relatedness_ht, pca_samples_rankings,
                   pca_related_samples_to_drop, rel_error, rel_run,
                   rel_first_run>>
    /\ UNCHANGED notRelVars

\* rank_ht.select(rank_ht.filtered, rank_ht.rank): the table has no field
\* `filtered` (the select above kept hard_filtered), so the attribute
\* lookup raises and control passes to the finally block
SelectRankFields ==
    /\ rel_pc = "select"
    /\ IF {"filtered", "rank"} \subseteq rank_ht.fields
       THEN /\ rank_ht' = [rank_ht EXCEPT !.fields = {"s", "filtered", "rank"}]
            /\ rel_pc' = "write_rank"
            /\ UNCHANGED rel_error
       ELSE /\ rel_error' = "AttributeError"
            /\ rel_pc' = "finally"
            /\ UNCHANGED rank_ht
    /\ UNCHANGED <<rel_joint_qc_meta, relatedness_ht, pca_samples_rankings,
                   pca_related_samples_to_drop, rel_run, rel_first_run>>
    /\ UNCHANGED notRelVars

\* finally: hl.copy_log(...)
CopyRelatednessLog ==
    /\ rel_pc = "finally"
    /\ rel_pc' = "exit"
    /\ UNCHANGED <<rel_joint_qc_meta, relatedness_ht, rank_ht,
                   pca_samples_rankings, pca_related_samples_to_drop, rel_error,
                   rel_run, rel_first_run>>
    /\ UNCHANGED notRelVars

\* the stage is started again on the same inputs; the tables on disk stay
\* (the stage never reads args.overwrite)
RerunRelated ==
    /\ rel_pc = "exit"
    /\ rel_run = 1
    /\ rel_first_run' = [pca_samples_rankings |-> pca_samples_rankings,
                         pca_related_samples_to_drop |->
                             pca_related_samples_to_drop,
                         error |-> rel_error]
    /\ rel_run' = 2
    /\ rel_pc' = "rank"
    /\ rank_ht' = << >>
    /\ rel_error' = "none"
    /\ UNCHANGED <<rel_joint_qc_meta, relatedness_ht, pca_samples_rankings,
                   pca_related_samples_to_drop>>
    /\ UNCHANGED notRelVars

StepRelated ==
    \/ RankSamples
    \/ SelectRankFields
    \/ CopyRelatednessLog
    \/ RerunRelated

\* ============================================== create_hgdp_tgp_subset.py
MaxFreqLen == 4

\* strata of the release: the freq_meta dict and its freq_index_dict label
FreqStrata ==
    { [label |-> "adj",           meta |-> ("group" :> "adj")],
      [label |-> "raw",           meta |-> ("group" :> "raw")],
      [label |-> "afr-adj",       meta |-> ("group" :> "adj" @@ "pop" :> "afr")],
      [label |-> "10-global-adj",
       meta |-> ("group" :> "adj" @@ "downsampling" :> "10" @@ "pop" :> "global")],
      [label |-> "non_v2-adj",    meta |-> ("group" :> "adj" @@ "subset" :> "non_v2")] }

\* the freq_meta lists a release table can carry: each stratum at most once
FreqMetaLists ==
    UNION { {l \in [1..n -> FreqStrata] :
                \A i, j \in 1..n : i # j => l[i] # l[j]} : n \in 0..MaxFreqLen }

\* if "downsampling" not in x and "subset" not in x
KeepMeta(x) == "downsampling" \notin DOMAIN x /\ "subset" \notin DOMAIN x

\* [x for x in full_release_freq_meta if ...]
FilterFreqMeta(full) == SelectSeq(full, KeepMeta)
\* [i for i, x in enumerate(full_release_freq_meta) if ...], 0-based
IndexKeep(full) == {i - 1 : i \in {j \in 1..Len(full) : KeepMeta(full[j])}}
\* {k: v for k, v in freq_index_dict.items() if v in index_keep}
FilterIndexDict(dict, index_keep) ==
    [k \in {l \in DOMAIN dict : dict[l] \in index_keep} |-> dict[k]]
\* keyed_release.freq[: len(freq_meta)]
TruncateFreq(freq, freq_meta) ==
    SubSeq(freq, 1, IF Len(freq_meta) < Len(freq) THEN Len(freq_meta) ELSE Len(freq))

IdleVariantAnn ==
    /\ va_pc = "idle"
    /\ release_freq_meta = << >>
    /\ release_freq = << >>
    /\ release_freq_index_dict = << >>
    /\ gnomad_freq = << >>
    /\ gnomad_freq_meta = << >>
    /\ gnomad_freq_index_dict = << >>

\* the release table: freq[i] holds the frequencies aggregated for
\* freq_meta[i], and freq_index_dict maps each label to its 0-based index
StartVariantAnn ==
    /\ va_pc = "load"
    /\ \E strata \in FreqMetaLists :
           /\ release_freq_meta = [i \in 1..Len(strata) |-> strata[i].meta]
           /\ release_freq = [i \in 1..Len(strata) |-> [stratum |-> strata[i].meta]]
           /\ release_freq_index_dict =
                  [l \in {strata[i].label : i \in 1..Len(strata)} |->
                      (CHOOSE i \in 1..Len(strata) : strata[i].label = l) - 1]
    /\ gnomad_freq = << >>
    /\ gnomad_freq_meta = << >>
    /\ gnomad_freq_index_dict = << >>

PrepareGnomadFreq ==
    /\ va_pc = "load"
    /\ LET freq_meta == FilterFreqMeta(release_freq_meta)
           index_keep == IndexKeep(release_freq_meta)
       IN  /\ gnomad_freq_meta' = freq_meta
           /\ gnomad_freq_index_dict' =
                  FilterIndexDict(release_freq_index_dict, index_keep)
           /\ gnomad_freq' = TruncateFreq(release_freq, freq_meta)
    /\ va_pc' = "done"
    /\ UNCHANGED <<release_freq_meta, release_freq, release_freq_index_dict>>
    /\ UNCHANGED notVaVars

StepVariantAnn ==
    \/ PrepareGnomadFreq

\* ======================================================== hard_filters.py
\* a missing numeric field
MissingNum == -1
Gt3(x, t) == IF x = MissingNum THEN NA ELSE B3(x > t)
Lt3(x, t) == IF x = MissingNum THEN NA ELSE B3(x < t)

\* default cutoffs; rates in hundredths, bases in units of 1e7
max_n_singleton == 5000
max_r_het_hom_var == 10
min_bases_dp_over_1 == 5
min_bases_dp_over_20 == 4
max_contamination == 5
max_chimera == 5

HardFilterArgs ==
    [include_sex_filter : BOOLEAN,
     test : BOOLEAN,
     coverage_mt : BOOLEAN,
     min_cov : {None, Some(15)},
     min_qc_mt_adj_callrate : {None, Some(99)}]

\* what the joined tables hold for one sample of the VDS
HardFilterSamples ==
    [failed_fingerprinting : BOOLEAN,
     n_singleton : {MissingNum, 5001},
     r_het_hom_var : {10, 11},
     bases_dp_over_1 : {4, 5},
     bases_dp_over_20 : {3, 4},
     contam_rate : {MissingNum, 5, 6},
     chimeras_rate : {MissingNum, 5, 6},
     freemix : {MissingNum, 5, 6},
     pct_chimeras : {MissingNum, 5, 6},
     chr20_mean_dp : {14, 15},
     callrate_adj : {98, 99},
     sex_karyotype : {NA, "XX", "ambiguous", "X0"}]

\* project_meta's bam_metrics, or the test set's rand_sampling_meta
\* annotated with contam_rate=freemix and chimeras_rate=pct_chimeras
bam_metrics_struct(sample, test) ==
    IF test
    THEN [contam_rate |-> sample.freemix, chimeras_rate |-> sample.pct_chimeras]
    ELSE [contam_rate |-> sample.contam_rate,
          chimeras_rate |-> sample.chimeras_rate]

\* the sample_qc_metric_hard_filters dict
SampleQcMetricFilters(sample) ==
    [k \in {"high_n_singleton", "high_r_het_hom_var", "low_bases_dp_over_1",
            "low_bases_dp_over_20"} |->
        CASE k = "high_n_singleton" -> Gt3(sample.n_singleton, max_n_singleton)
          [] k = "high_r_het_hom_var" ->
                 Gt3(sample.r_het_hom_var, max_r_het_hom_var)
          [] k = "low_bases_dp_over_1" ->
                 Lt3(sample.bases_dp_over_1, min_bases_dp_over_1)
          [] k = "low_bases_dp_over_20" ->
                 Lt3(sample.bases_dp_over_20, min_bases_dp_over_20)]

\* variant: the two sex reasons are entered whatever include_sex_filter is
HardFilterNamesWithSex(args) ==
    {"failed_fingerprinting", "sample_qc_metrics", "contamination", "chimera",
     "ambiguous_sex", "sex_aneuploidy"}
      \cup (IF args.min_cov # None THEN {"low_coverage"} ELSE {})
      \cup (IF args.min_qc_mt_adj_callrate # None THEN {"low_adj_callrate"} ELSE {})

\* the keys of the hard_filters dict
HardFilterNames(args) ==
    {"failed_fingerprinting", "sample_qc_metrics", "contamination", "chimera"}
      \cup (IF args.min_cov # None THEN {"low_coverage"} ELSE {})
      \cup (IF args.min_qc_mt_adj_callrate # None THEN {"low_adj_callrate"} ELSE {})
      \cup (IF args.include_sex_filter
            THEN {"ambiguous_sex", "sex_aneuploidy"} ELSE {})

\* variant: the bam-metric reasons are an if/elif chain, chimera is looked
\* at only when contamination passed
HardFilterExprsElif(args, sample) ==
    LET qc == SampleQcMetricFilters(sample)
        bam == bam_metrics_struct(sample, args.test)
    IN  [k \in HardFilterNames(args) |->
            CASE k = "failed_fingerprinting" -> B3(sample.failed_fingerprinting)
              [] k = "sample_qc_metrics" ->
                     Or3(Or3(Or3(qc["high_n_singleton"], qc["high_r_het_hom_var"]),
                             qc["low_bases_dp_over_1"]),
                         qc["low_bases_dp_over_20"])
              [] k = "contamination" -> Gt3(bam.contam_rate, max_contamination)
              [] k = "chimera" ->
                     IF Gt3(bam.contam_rate, max_contamination) = "T" THEN "F"
                     ELSE Gt3(bam.chimeras_rate, max_chimera)
              [] k = "low_coverage" -> Lt3(sample.chr20_mean_dp, Val(args.min_cov))
              [] k = "low_adj_callrate" ->
                     Lt3(sample.callrate_adj, Val(args.min_qc_mt_adj_callrate))
              [] k = "ambiguous_sex" -> Eq3(sample.sex_karyotype, "ambiguous")
              [] k = "sex_aneuploidy" ->
                     IF sample.sex_karyotype = NA THEN NA
                     ELSE Not3(B3(sample.sex_karyotype \in {"ambiguous", "XX", "XY"}))]

\* the hard_filters dict
HardFilterExprs(args, sample) ==
    LET qc == SampleQcMetricFilters(sample)
        bam == bam_metrics_struct(sample, args.test)
    IN  [k \in HardFilterNames(args) |->
            CASE k = "failed_fingerprinting" -> B3(sample.failed_fingerprinting)
              [] k = "sample_qc_metrics" ->
                     Or3(Or3(Or3(qc["high_n_singleton"], qc["high_r_het_hom_var"]),
                             qc["low_bases_dp_over_1"]),
                         qc["low_bases_dp_over_20"])
              [] k = "contamination" -> Gt3(bam.contam_rate, max_contamination)
              [] k = "chimera" -> Gt3(bam.chimeras_rate, max_chimera)
              [] k = "low_coverage" -> Lt3(sample.chr20_mean_dp, Val(args.min_cov))
              [] k = "low_adj_callrate" ->
                     Lt3(sample.callrate_adj, Val(args.min_qc_mt_adj_callrate))
              [] k = "ambiguous_sex" -> Eq3(sample.sex_karyotype, "ambiguous")
              [] k = "sex_aneuploidy" ->
                     IF sample.sex_karyotype = NA THEN NA
                     ELSE Not3(B3(sample.sex_karyotype \in {"ambiguous", "XX", "XY"}))]

\* gnomad.utils.filtering.add_filters_expr, by its documented contract: the
\* key of every entry whose value evaluates to True is added to the set
add_filters_expr(filters) == {k \in DOMAIN filters : filters[k] = "T"}

IdleHardFilters ==
    /\ hf_pc = "idle"
    /\ hf_args = << >>
    /\ hf_sample = << >>
    /\ hard_filters = {}
    /\ sample_qc_metric_hard_filters = {}
    /\ hf_in_table = FALSE
    /\ hf_error = "none"

StartHardFilters ==
    /\ hf_pc = "compute"
    /\ hf_args \in HardFilterArgs
    /\ hf_sample \in HardFilterSamples
    \* only the metadata table of the chosen mode is joined
    /\ IF hf_args.test
       THEN hf_sample.contam_rate = MissingNum /\ hf_sample.chimeras_rate = MissingNum
       ELSE hf_sample.freemix = MissingNum /\ hf_sample.pct_chimeras = MissingNum
    /\ hard_filters = {}
    /\ sample_qc_metric_hard_filters = {}
    /\ hf_in_table = FALSE
    /\ hf_error = "none"

\* min_cov given without a coverage MatrixTable
RaiseNoCoverageMt ==
    /\ hf_pc = "compute"
    /\ hf_args.min_cov # None /\ ~hf_args.coverage_mt
    /\ hf_pc' = "raised"
    /\ hf_error' = "ValueError"
    /\ UNCHANGED <<hf_args, hf_sample, hard_filters,
                   sample_qc_metric_hard_filters, hf_in_table>>
    /\ UNCHANGED notHfVars

ComputeHardFilters ==
    /\ hf_pc = "compute"
    /\ ~(hf_args.min_cov # None /\ ~hf_args.coverage_mt)
    /\ hard_filters' = add_filters_expr(HardFilterExprs(hf_args, hf_sample))
    /\ sample_qc_metric_hard_filters' =
           add_filters_expr(SampleQcMetricFilters(hf_sample))
    \* ht.filter(hl.len(ht.hard_filters) > 0)
    /\ hf_in_table' = (Cardinality(hard_filters') > 0)
    /\ hf_pc' = "done"
    /\ UNCHANGED <<hf_args, hf_sample, hf_error>>
    /\ UNCHANGED notHfVars

StepHardFilters ==
    \/ RaiseNoCoverageMt
    \/ ComputeHardFilters

\* ======================================== create_sample_qc_metadata_ht.py
SECOND_DEGREE_RELATIVES == "second degree relatives"
PARENT_CHILD == "parent-child"
SIBLINGS == "siblings"
DUPLICATE_OR_TWINS == "duplicate/twins"

\* what the input tables hold for one sample of the VDS. A table without a
\* row for the sample is None; hard_filtered_samples has a row only for a
\* sample with at least one reason (compute_hard_filters keeps
\* len(hard_filters) > 0).
MetaSamples ==
    [hard_filters_row : {None, Some({"contamination"}),
                         Some({"contamination", "chimera"})},
     outlier_row : {None, Some("T"), Some("F")},
     releasable : Bool3,
     in_release_related_samples_to_drop : BOOLEAN,
     in_pca_related_samples_to_drop : BOOLEAN,
     relationships : {None, Some({SECOND_DEGREE_RELATIVES}),
                      Some({PARENT_CHILD, SIBLINGS})}]

\* get_hard_filters_ht, one row of it
HardFiltersRow(reasons) ==
    [hard_filters |-> Some(reasons),
     hard_filtered |-> And3(B3(TRUE), B3(Cardinality(reasons) > 0))]

\* ann_ht[ht.key] for the hard-filters table: every field is missing for a
\* sample without a row
JoinHardFilters(row) ==
    IF row = None THEN [hard_filters |-> None, hard_filtered |-> NA]
    ELSE HardFiltersRow(Val(row))

\* hl.case().when(c, v)...default(d): a missing predicate makes the case
\* missing
get_relationship_filter_expr(hard_filtered_expr, related_drop_expr, relationship_set, relationship) ==
    IF hard_filtered_expr = NA THEN NA
    ELSE IF hard_filtered_expr = "T" THEN NA
    ELSE IF relationship = SECOND_DEGREE_RELATIVES THEN related_drop_expr
    ELSE IF And3(B3(relationship_set # None), related_drop_expr) = "T"
         THEN B3(relationship \in Val(relationship_set))
    ELSE "F"

RelatednessFilters(hard_filtered, sample) ==
    LET rel == sample.relationships
        release == B3(sample.in_release_related_samples_to_drop)
        all_samples == B3(sample.in_pca_related_samples_to_drop)
        f(drop, r) == get_relationship_filter_expr(hard_filtered, drop, rel, r)
    IN  [release_related |-> f(release, SECOND_DEGREE_RELATIVES),
         all_samples_related |-> f(all_samples, SECOND_DEGREE_RELATIVES),
         release_duplicate_or_twin |-> f(release, DUPLICATE_OR_TWINS),
         all_samples_duplicate_or_twin |-> f(all_samples, DUPLICATE_OR_TWINS),
         release_parent_child |-> f(release, PARENT_CHILD),
         all_samples_parent_child |-> f(all_samples, PARENT_CHILD),
         release_sibling |-> f(release, SIBLINGS),
         all_samples_sibling |-> f(all_samples, SIBLINGS)]

IdleMeta ==
    /\ mt_pc = "idle"
    /\ mt_sample = << >>
    /\ sample_filters_ht = << >>
    /\ meta_ht = << >>

StartMeta ==
    /\ mt_pc = "filters"
    /\ mt_sample \in MetaSamples
    /\ sample_filters_ht = << >>
    /\ meta_ht = << >>

\* sample_filters_ht: hard filters, relatedness filters, outlier detection
BuildSampleFilters ==
    /\ mt_pc = "filters"
    /\ LET hf == JoinHardFilters(mt_sample.hard_filters_row)
       IN  sample_filters_ht' =
               [hard_filters |-> hf.hard_filters,
                hard_filtered |-> hf.hard_filtered,
                relatedness_filters |->
                    RelatednessFilters(hf.hard_filtered, mt_sample),
                outlier_filtered |->
                    IF mt_sample.outlier_row = None THEN NA
                    ELSE Val(mt_sample.outlier_row)]
    /\ mt_pc' = "high_quality"
    /\ UNCHANGED <<mt_sample, meta_ht>>
    /\ UNCHANGED notMtVars

AnnotateHighQuality ==
    /\ mt_pc = "high_quality"
    /\ meta_ht' =
           [releasable |-> mt_sample.releasable,
            sample_filters |-> sample_filters_ht,
            high_quality |-> And3(Not3(sample_filters_ht.hard_filtered),
                                  Not3(sample_filters_ht.outlier_filtered)),
            release |-> NA]
    /\ mt_pc' = "release"
    /\ UNCHANGED <<mt_sample, sample_filters_ht>>
    /\ UNCHANGED notMtVars

\* the release annotation, then the checkpoint of the table
AnnotateRelease ==
    /\ mt_pc = "release"
    /\ meta_ht' =
           [meta_ht EXCEPT !.release =
               And3(And3(meta_ht.releasable, meta_ht.high_quality),
                    Not3(meta_ht.sample_filters.relatedness_filters.release_related))]
    /\ mt_pc' = "done"
    /\ UNCHANGED <<mt_sample, sample_filters_ht>>
    /\ UNCHANGED notMtVars

StepMeta ==
    \/ BuildSampleFilters
    \/ AnnotateHighQuality
    \/ AnnotateRelease

\* ================================================== generate_freq_data.py
MaxSubsets == 3

\* gnomad.resources.grch38.gnomad
SUBSETS == {"non_v2", "non_cancer", "tgp", "hgdp"}
COHORTS_WITH_POP_STORED_AS_SUBPOP == {"tgp", "hgdp"}
\* main(args) takes any list of names; "other" is a name outside SUBSETS
SubsetNames == SUBSETS \cup {"other"}
SubsetLists == UNION {[1..n -> SubsetNames] : n \in 0..MaxSubsets}

\* Python's a & b on non-negative integers
RECURSIVE BitAnd(_, _)
BitAnd(a, b) ==
    IF a = 0 \/ b = 0 THEN 0
    ELSE (a % 2) * (b % 2) + 2 * BitAnd(a \div 2, b \div 2)

\* int(x) of a Python bool
BoolInt(x) == IF x THEN 1 ELSE 0

InvalidSubsets(l) == SelectSeq(l, LAMBDA x : x \notin SUBSETS)
CountUseSubpops(l) ==
    Len(SelectSeq(l, LAMBDA x : x \in COHORTS_WITH_POP_STORED_AS_SUBPOP))

\* the condition of the second raise: a nonzero integer is truthy
CannotCombine(n, l) == BitAnd(n, BoolInt(n # Len(l))) # 0

IdleFreq ==
    /\ fq_pc = "idle"
    /\ subsets = << >>
    /\ invalid_subsets = << >>
    /\ n_subsets_use_subpops = 0
    /\ fq_read = FALSE
    /\ fq_pop_expr = "none"
    /\ fq_error = "none"

StartFreq ==
    /\ fq_pc = "validate"
    /\ subsets \in SubsetLists
    /\ invalid_subsets = << >>
    /\ n_subsets_use_subpops = 0
    /\ fq_read = FALSE
    /\ fq_pop_expr = "none"
    /\ fq_error = "none"

\* the checks on the requested subsets; a raise here is outside the try
ValidateSubsets ==
    /\ fq_pc = "validate"
    /\ invalid_subsets' = InvalidSubsets(subsets)
    /\ n_subsets_use_subpops' = CountUseSubpops(subsets)
    /\ IF Len(subsets) > 0
          /\ (\/ Len(invalid_subsets') > 0
              \/ CannotCombine(n_subsets_use_subpops', subsets))
       THEN /\ fq_error' = "ValueError"
            /\ fq_pc' = "raised"
       ELSE /\ fq_error' = fq_error
            /\ fq_pc' = "read"
    /\ UNCHANGED <<subsets, fq_read, fq_pop_expr>>
    /\ UNCHANGED notFqVars

\* read the dense MT, filter to the subsets, adjust the genotypes
ReadMatrixTable ==
    /\ fq_pc = "read"
    /\ fq_read' = TRUE
    /\ fq_pc' = "annotate_freq"
    /\ UNCHANGED <<subsets, invalid_subsets, n_subsets_use_subpops,
                   fq_pop_expr, fq_error>>
    /\ UNCHANGED notFqVars

\* annotate_freq, with the ancestry field picked for the run
AnnotateFreq ==
    /\ fq_pc = "annotate_freq"
    /\ fq_pop_expr' =
           IF Len(subsets) > 0 /\ n_subsets_use_subpops # 0
           THEN "project_subpop" ELSE "pop"
    /\ fq_pc' = "finally"
    /\ UNCHANGED <<subsets, invalid_subsets, n_subsets_use_subpops, fq_read,
                   fq_error>>
    /\ UNCHANGED notFqVars

CopyFreqLog ==
    /\ fq_pc = "finally"
    /\ fq_pc' = "exit"
    /\ UNCHANGED <<subsets, invalid_subsets, n_subsets_use_subpops, fq_read,
                   fq_pop_expr, fq_error>>
    /\ UNCHANGED notFqVars

StepFreq ==
    \/ ValidateSubsets
    \/ ReadMatrixTable
    \/ AnnotateFreq
    \/ CopyFreqLog

\* ============ create_hgdp_tgp_subset.py, relatedness of the subset samples
NumRelated == 3
RelatedSamples == 1..NumRelated
\* pc_relate lists each pair once, i before j
RelatedPairs == {p \in RelatedSamples \X RelatedSamples : p[1] < p[2]}
\* kin in hundredths with the ibd estimates of the pair
PairInfos ==
    {[kin |-> 25, ibd0 |-> 0, ibd1 |-> 100, ibd2 |-> 0],
     [kin |-> 12, ibd0 |-> 50, ibd1 |-> 50, ibd2 |-> 0]}
\* a pair table: for each pair either no row (None) or its row
PairTables == [RelatedPairs -> {None} \cup {Some(x) : x \in PairInfos}]
PairRows(t) == {p \in DOMAIN t : t[p] # None}

\* relatedness_ht.filter(subset_samples.contains(i.s) & subset_samples.contains(j.s))
FilterToSubsetPairs(t, keep) ==
    [p \in DOMAIN t |-> IF p[1] \in keep /\ p[2] \in keep THEN t[p] ELSE None]

\* hl.struct(s=<the other sample>, **relationship_struct)
RelatedStruct(other, info) ==
    [s |-> other, kin |-> info.kin, ibd0 |-> info.ibd0, ibd1 |-> info.ibd1,
     ibd2 |-> info.ibd2]

\* group_by(s=i.s).aggregate(collect_as_set(struct(s=j.s, ...)))
GroupByI(t) ==
    {[s |-> x,
      related_samples |->
          {RelatedStruct(p[2], Val(t[p])) : p \in {q \in PairRows(t) : q[1] = x}}]
       : x \in {p[1] : p \in PairRows(t)}}

\* group_by(s=j.s).aggregate(collect_as_set(struct(s=i.s, ...)))
GroupByJ(t) ==
    {[s |-> x,
      related_samples |->
          {RelatedStruct(p[1], Val(t[p])) : p \in {q \in PairRows(t) : q[2] = x}}]
       : x \in {p[2] : p \in PairRows(t)}}

\* relatedness_ht_i.union(relatedness_ht_j): Table.union keeps the rows of
\* both tables, also when they share a key. A row of the i table and a row
\* of the j table with the same s never have the same set (the partners of
\* the i role come after s, those of the j role before), so the rows of the
\* result are a set.
get_relatedness_set_ht(t) == GroupByI(t) \cup GroupByJ(t)

\* relatedness_ht[meta_ht.key]: the row of one sample. A key has at most
\* two rows here (one of each role); with two, the join returns one of them
\* and `first` says which.
IndexRow(table, x, first) ==
    LET rows == {q \in table : q.s = x}
        r1 == CHOOSE r \in rows : TRUE
    IN  IF rows = {} THEN None
        ELSE IF Cardinality(rows) = 1 \/ first THEN Some(r1.related_samples)
        ELSE Some((CHOOSE r \in rows \ {r1} : TRUE).related_samples)

\* hl.coalesce(value, hl.empty_set(...))
CoalesceSet(v) == IF v = None THEN {} ELSE Val(v)

IdleRelSet ==
    /\ rs_pc = "idle"
    /\ subset_samples = {}
    /\ hgdp_tgp_relatedness = << >>
    /\ rs_relatedness_ht = << >>
    /\ relatedness_set_ht = {}
    /\ related_samples = << >>

StartRelSet ==
    /\ rs_pc = "filter"
    /\ subset_samples \in SUBSET RelatedSamples
    /\ hgdp_tgp_relatedness \in PairTables
    /\ rs_relatedness_ht = << >>
    /\ relatedness_set_ht = {}
    /\ related_samples = << >>

\* keep the pairs with both samples in the subset
FilterRelatednessToSubset ==
    /\ rs_pc = "filter"
    /\ rs_relatedness_ht' =
           FilterToSubsetPairs(hgdp_tgp_relatedness, subset_samples)
    /\ rs_pc' = "set"
    /\ UNCHANGED <<subset_samples, hgdp_tgp_relatedness, relatedness_set_ht,
                   related_samples>>
    /\ UNCHANGED notRelSetVars

GetRelatednessSetHt ==
    /\ rs_pc = "set"
    /\ relatedness_set_ht' = get_relatedness_set_ht(rs_relatedness_ht)
    /\ rs_pc' = "select"
    /\ UNCHANGED <<subset_samples, hgdp_tgp_relatedness, rs_relatedness_ht,
                   related_samples>>
    /\ UNCHANGED notRelSetVars

\* meta_ht.select(relatedness_inference=struct(related_samples=coalesce(...)))
SelectRelatednessInference ==
    /\ rs_pc = "select"
    /\ \E first \in [subset_samples -> BOOLEAN] :
           related_samples' =
               [x \in subset_samples |->
                   CoalesceSet(IndexRow(relatedness_set_ht, x, first[x]))]
    /\ rs_pc' = "done"
    /\ UNCHANGED <<subset_samples, hgdp_tgp_relatedness, rs_relatedness_ht,
                   relatedness_set_ht>>
    /\ UNCHANGED notRelSetVars

StepRelSet ==
    \/ FilterRelatednessToSubset
    \/ GetRelatednessSetHt
    \/ SelectRelatednessInference

\* ============= create_sample_qc_metadata_ht.py, relationships of a sample
UNRELATED == "unrelated"
Relationships == {UNRELATED, PARENT_CHILD, SECOND_DEGREE_RELATIVES}
DataTypes == {"exomes", "genomes"}
\* the relatedness table: for each pair either no row or its relationship
RelationshipTables ==
    [RelatedPairs -> {None} \cup {Some(r) : r \in Relationships}]

\* filter((relationship != UNRELATED) & (i.data_type == "exomes")
\*        & (j.data_type == "exomes"))
ExomePairs(t, data_type) ==
    {p \in PairRows(t) : /\ Val(t[p]) # UNRELATED
                         /\ data_type[p[1]] = "exomes"
                         /\ data_type[p[2]] = "exomes"}

\* select(relationship, s=i.s, pair=j.s).union(select(relationship, s=j.s,
\* pair=i.s))
BothRoles(t, pairs) ==
    {[s |-> p[1], pair |-> p[2], relationship |-> Val(t[p])] : p \in pairs}
    \cup {[s |-> p[2], pair |-> p[1], relationship |-> Val(t[p])] : p \in pairs}

\* group_by(s).aggregate(relationships=agg.group_by(relationship,
\* agg.collect_as_set(pair))): one row per s that has a row
get_relatedness_dict_ht(t, data_type) ==
    LET rows == BothRoles(t, ExomePairs(t, data_type))
        dict(x) ==
            [k \in {r.relationship : r \in {q \in rows : q.s = x}} |->
                {r.pair : r \in {q \in rows : q.s = x /\ q.relationship = k}}]
    IN  [x \in {r.s : r \in rows} |-> dict(x)]

\* get_relatedness_dict_ht(relatedness_ht)[ht.key].relationships
IndexRelationships(table, x) ==
    IF x \in DOMAIN table THEN Some(table[x]) ELSE None

IdleRelDict ==
    /\ rd_pc = "idle"
    /\ rd_data_type = << >>
    /\ rd_relatedness_ht = << >>
    /\ relatedness_dict_ht = << >>
    /\ relationships = << >>

StartRelDict ==
    /\ rd_pc = "dict"
    /\ rd_data_type \in [RelatedSamples -> DataTypes]
    /\ rd_relatedness_ht \in RelationshipTables
    /\ relatedness_dict_ht = << >>
    /\ relationships = << >>

GetRelatednessDictHt ==
    /\ rd_pc = "dict"
    /\ relatedness_dict_ht' =
           get_relatedness_dict_ht(rd_relatedness_ht, rd_data_type)
    /\ rd_pc' = "select"
    /\ UNCHANGED <<rd_data_type, rd_relatedness_ht, relationships>>
    /\ UNCHANGED notRelDictVars

\* relatedness_ht = ht.select(relationships=relationships_expr, ...)
SelectRelationships ==
    /\ rd_pc = "select"
    /\ relationships' =
           [x \in RelatedSamples |-> IndexRelationships(relatedness_dict_ht, x)]
    /\ rd_pc' = "done"
    /\ UNCHANGED <<rd_data_type, rd_relatedness_ht, relatedness_dict_ht>>
    /\ UNCHANGED notRelDictVars

StepRelDict ==
    \/ GetRelatednessDictHt
    \/ SelectRelationships

\* ========================================= create_hgdp_tgp_subset.py, main
\* the resources of one mode (test or full) that main reads and writes
SubsetResources == {"sample_annotation", "sparse_mt", "variant_annotation"}
SubsetOutputs == SubsetResources \cup {"sample_tsv", "dense_mt"}

SubsetArgs ==
    [test : BOOLEAN, overwrite : BOOLEAN,
     create_sample_annotation_ht : BOOLEAN,
     export_sample_annotation_tsv : BOOLEAN,
     create_subset_sparse_mt : BOOLEAN,
     create_variant_annotation_ht : BOOLEAN,
     create_subset_dense_mt : BOOLEAN]

\* x.write(path, overwrite=args.overwrite): Hail refuses to write over an
\* existing path unless overwrite is set
CanWrite(name) == name \notin ts_files \/ ts_args.overwrite

IdleSubset ==
    /\ ts_pc = "idle"
    /\ ts_args = << >>
    /\ ts_files_before = {}
    /\ ts_files = {}
    /\ ts_written = {}
    /\ ts_error = "none"

StartSubset ==
    /\ ts_pc = "sample_annotation"
    /\ ts_args \in SubsetArgs
    /\ ts_files_before \in SUBSET SubsetResources
    /\ ts_files = ts_files_before
    /\ ts_written = {}
    /\ ts_error = "none"

\* one requested stage: it reads `reads`, then writes `name`
RunStage(requested, reads, name, protected, next) ==
    IF ~requested
    THEN /\ ts_pc' = next
         /\ UNCHANGED <<ts_files, ts_written, ts_error>>
    ELSE IF ~(reads \subseteq ts_files) \/ (protected /\ ~CanWrite(name))
    THEN /\ ts_pc' = "raised"
         /\ ts_error' = "FatalError"
         /\ UNCHANGED <<ts_files, ts_written>>
    ELSE /\ ts_pc' = next
         /\ ts_files' = ts_files \cup ({name} \cap SubsetResources)
         /\ ts_written' = ts_written \cup {name}
         /\ UNCHANGED ts_error

\* if test and (<stages>) and not file_exists(path): raise DataException
CheckResource(needed, name, next) ==
    IF ts_args.test /\ needed /\ name \notin ts_files
    THEN /\ ts_pc' = "raised"
         /\ ts_error' = "DataException"
         /\ UNCHANGED <<ts_files, ts_written>>
    ELSE /\ ts_pc' = next
         /\ UNCHANGED <<ts_files, ts_written, ts_error>>

CreateSampleAnnotationHt ==
    /\ ts_pc = "sample_annotation"
    /\ RunStage(ts_args.create_sample_annotation_ht, {}, "sample_annotation",
                TRUE, "check_sample_annotation")
    /\ UNCHANGED <<ts_args, ts_files_before>>
    /\ UNCHANGED notSubsetVars

CheckSampleAnnotation ==
    /\ ts_pc = "check_sample_annotation"
    /\ CheckResource(\/ ts_args.export_sample_annotation_tsv
                     \/ ts_args.create_subset_sparse_mt
                     \/ ts_args.create_subset_dense_mt,
                     "sample_annotation", "sample_tsv")
    /\ UNCHANGED <<ts_args, ts_files_before>>
    /\ UNCHANGED notSubsetVars

ExportSampleAnnotationTsv ==
    /\ ts_pc = "sample_tsv"
    /\ RunStage(ts_args.export_sample_annotation_tsv, {"sample_annotation"},
                "sample_tsv", FALSE, "sparse_mt")
    /\ UNCHANGED <<ts_args, ts_files_before>>
    /\ UNCHANGED notSubsetVars

CreateSubsetSparseMt ==
    /\ ts_pc = "sparse_mt"
    /\ RunStage(ts_args.create_subset_sparse_mt, {"sample_annotation"},
                "sparse_mt", TRUE, "check_sparse_mt")
    /\ UNCHANGED <<ts_args, ts_files_before>>
    /\ UNCHANGED notSubsetVars

CheckSparseMt ==
    /\ ts_pc = "check_sparse_mt"
    /\ CheckResource(\/ ts_args.create_variant_annotation_ht
                     \/ ts_args.create_subset_dense_mt,
                     "sparse_mt", "variant_annotation")
    /\ UNCHANGED <<ts_args, ts_files_before>>
    /\ UNCHANGED notSubsetVars

CreateVariantAnnotationHt ==
    /\ ts_pc = "variant_annotation"
    /\ RunStage(ts_args.create_variant_annotation_ht, {"sparse_mt"},
                "variant_annotation", TRUE, "dense_mt")
    /\ UNCHANGED <<ts_args, ts_files_before>>
    /\ UNCHANGED notSubsetVars

\* the dense stage checks the variant annotation table itself
CreateSubsetDenseMt ==
    /\ ts_pc = "dense_mt"
    /\ IF /\ ts_args.create_subset_dense_mt
          /\ "sample_annotation" \in ts_files
          /\ ts_args.test /\ "variant_annotation" \notin ts_files
       THEN /\ ts_pc' = "raised"
            /\ ts_error' = "DataException"
            /\ UNCHANGED <<ts_files, ts_written>>
       ELSE RunStage(ts_args.create_subset_dense_mt,
                     {"sample_annotation", "variant_annotation", "sparse_mt"},
                     "dense_mt", TRUE, "done")
    /\ UNCHANGED <<ts_args, ts_files_before>>
    /\ UNCHANGED notSubsetVars

StepSubset ==
    \/ CreateSampleAnnotationHt
    \/ CheckSampleAnnotation
    \/ ExportSampleAnnotationTsv
    \/ CreateSubsetSparseMt
    \/ CheckSparseMt
    \/ CreateVariantAnnotationHt
    \/ CreateSubsetDenseMt

\* ================== create_hgdp_tgp_subset.py, variant table and dense MT
NumVariants == 2
Variants == 1..NumVariants

\* a row of the split sparse MT and what the annotation tables hold for it:
\* n_alleles = 1 is a reference-block row, AS_lowqual is the info table's
\* value (missing without an info row), telomere says whether the locus
\* lies in an interval of telomeres_and_centromeres
VariantRows ==
    [n_alleles : {1, 2}, AS_lowqual : {"T", "F", NA}, telomere : BOOLEAN]

\* variant: prepare_variant_annotations called with its default
filter_lowqual_default == TRUE

\* the argument main passes: filter_lowqual=False
filter_lowqual == FALSE

\* ht.filter(hl.len(ht.alleles) > 1)
FilterRefBlocks(rows) == {v \in DOMAIN rows : rows[v].n_alleles > 1}

\* prepare_variant_annotations: the optional filter (a row whose predicate
\* is True or missing goes) and the two flags it annotates
prepare_variant_annotations(rows, ht, lowqual) ==
    LET kept == IF lowqual THEN {v \in ht : rows[v].AS_lowqual = "F"} ELSE ht
    IN  [v \in kept |->
            [AS_lowqual |-> rows[v].AS_lowqual,
             telomere_or_centromere |-> B3(rows[v].telomere)]]

\* variant_annotation_ht[mt.row_key]: both flags missing without a row
IndexVariantAnnotation(ann, v) ==
    IF v \in DOMAIN ann THEN ann[v]
    ELSE [AS_lowqual |-> NA, telomere_or_centromere |-> NA]

\* filter_rows(~AS_lowqual & ~telomere_or_centromere & (len(alleles) > 1)):
\* a row stays when the predicate is True
create_full_subset_dense_mt(rows, ann) ==
    {v \in DOMAIN rows :
        And3(And3(Not3(IndexVariantAnnotation(ann, v).AS_lowqual),
                  Not3(IndexVariantAnnotation(ann, v).telomere_or_centromere)),
             B3(rows[v].n_alleles > 1)) = "T"}

IdleDense ==
    /\ dm_pc = "idle"
    /\ sparse_rows = << >>
    /\ variant_annotation_ht = << >>
    /\ dense_mt_rows = {}

StartDense ==
    /\ dm_pc = "annotate"
    /\ sparse_rows \in [Variants -> VariantRows]
    /\ variant_annotation_ht = << >>
    /\ dense_mt_rows = {}

\* if args.create_variant_annotation_ht
CreateVariantAnnotationTable ==
    /\ dm_pc = "annotate"
    /\ variant_annotation_ht' =
           prepare_variant_annotations(sparse_rows, FilterRefBlocks(sparse_rows),
                                       filter_lowqual)
    /\ dm_pc' = "dense"
    /\ UNCHANGED <<sparse_rows, dense_mt_rows>>
    /\ UNCHANGED notDenseVars

\* if args.create_subset_dense_mt
CreateDenseMt ==
    /\ dm_pc = "dense"
    /\ dense_mt_rows' = create_full_subset_dense_mt(sparse_rows, variant_annotation_ht)
    /\ dm_pc' = "done"
    /\ UNCHANGED <<sparse_rows, variant_annotation_ht>>
    /\ UNCHANGED notDenseVars

StepDense ==
    \/ CreateVariantAnnotationTable
    \/ CreateDenseMt

\* ============ create_hgdp_tgp_subset.py, get_sample_qc_filter_struct_expr
NumOutlierSamples == 3
MaxOutliers == 2
OutlierSamples == 1..NumOutlierSamples

\* hgdp_tgp_pop_outliers_ht.s.collect(): an array, the list can name a
\* sample twice
OutlierLists == UNION {[1..n -> OutlierSamples] : n \in 0..MaxOutliers}

\* set_to_remove.contains(ht["s"])
Contains(list, s) == \E i \in 1..Len(list) : list[i] = s

\* ht.filter(set_to_remove.contains(ht["s"])).count()
CountFound(ht, list) == Cardinality({s \in ht : Contains(list, s)})

IdleOutliers ==
    /\ oq_pc = "idle"
    /\ oq_ht = {}
    /\ set_to_remove = << >>
    /\ num_outliers = 0
    /\ num_outliers_found = 0
    /\ pop_outlier = << >>
    /\ oq_error = "none"

StartOutliers ==
    /\ oq_pc = "read"
    /\ oq_ht \in SUBSET OutlierSamples
    /\ set_to_remove \in OutlierLists
    /\ num_outliers = 0
    /\ num_outliers_found = 0
    /\ pop_outlier = << >>
    /\ oq_error = "none"

\* num_outliers and num_outliers_found
CountOutliers ==
    /\ oq_pc = "read"
    /\ num_outliers' = Len(set_to_remove)
    /\ num_outliers_found' = CountFound(oq_ht, set_to_remove)
    /\ oq_pc' = "check"
    /\ UNCHANGED <<oq_ht, set_to_remove, pop_outlier, oq_error>>
    /\ UNCHANGED notOutliersVars

\* if hl.eval(hl.len(set_to_remove)) != num_outliers: raise ValueError;
\* otherwise the struct is returned
CheckOutliers ==
    /\ oq_pc = "check"
    /\ IF Len(set_to_remove) # num_outliers
       THEN /\ oq_error' = "ValueError"
            /\ oq_pc' = "raised"
            /\ UNCHANGED pop_outlier
       ELSE /\ pop_outlier' = [s \in oq_ht |-> Contains(set_to_remove, s)]
            /\ oq_pc' = "returned"
            /\ UNCHANGED oq_error
    /\ UNCHANGED <<oq_ht, set_to_remove, num_outliers, num_outliers_found>>
    /\ UNCHANGED notOutliersVars

StepOutliers ==
    \/ CountOutliers
    \/ CheckOutliers

\* ================= hard_filters.py, the ADJ callrate of compute_hard_filters
MaxQcVariants == 2
MaxQcSamples == 2

\* an entry of v4_predetermined_qc: GT missing, GT defined but failing ADJ,
\* GT defined and passing ADJ
QcEntries == {"missing", "non_adj", "adj"}

\* the matrices of every shape: rows are variants, columns are samples
QcMatrices ==
    UNION {[(1..nv) \X (1..ns) -> QcEntries] :
              nv \in 1..MaxQcVariants, ns \in 1..MaxQcSamples}

QcRows(mt) == {e[1] : e \in DOMAIN mt}
QcCols(mt) == {e[2] : e \in DOMAIN mt}

\* hl.agg.count_where(hl.is_defined(mt.GT)) over the columns of a row
DefinedInRow(mt, v) == Cardinality({s \in QcCols(mt) : mt[<<v, s>>] # "missing"})

\* filter_to_adj followed by count_where(is_defined(GT)) over the kept rows
AdjInCol(mt, rows, s) == Cardinality({v \in rows : mt[<<v, s>>] = "adj"})

\* (count / num_samples) > 0.99
HighCallrate(n, num) == 100 * n > 99 * num

IdleCallrate ==
    /\ cr_pc = "idle"
    /\ qc_mt = << >>
    /\ num_samples = 0
    /\ qc_rows = {}
    /\ num_variants = 0
    /\ callrate_adj = << >>

StartCallrate ==
    /\ cr_pc = "count"
    /\ qc_mt \in QcMatrices
    /\ num_samples = 0
    /\ qc_rows = {}
    /\ num_variants = 0
    /\ callrate_adj = << >>

\* num_samples = mt.count_rows()
CountSamples ==
    /\ cr_pc = "count"
    /\ num_samples' = Cardinality(QcRows(qc_mt))
    /\ cr_pc' = "filter"
    /\ UNCHANGED <<qc_mt, qc_rows, num_variants, callrate_adj>>
    /\ UNCHANGED notCallrateVars

\* mt.filter_rows(...) and num_variants = mt.count_rows()
FilterHighCallrateVariants ==
    /\ cr_pc = "filter"
    /\ qc_rows' = {v \in QcRows(qc_mt) :
                      HighCallrate(DefinedInRow(qc_mt, v), num_samples)}
    /\ num_variants' = Cardinality(qc_rows')
    /\ cr_pc' = "callrate"
    /\ UNCHANGED <<qc_mt, num_samples, callrate_adj>>
    /\ UNCHANGED notCallrateVars

\* callrate_adj = count_where(is_defined(GT)) / num_variants, as a pair
AnnotateCallrateAdj ==
    /\ cr_pc = "callrate"
    /\ callrate_adj' =
           [s \in QcCols(qc_mt) |-> <<AdjInCol(qc_mt, qc_rows, s), num_variants>>]
    /\ cr_pc' = "done"
    /\ UNCHANGED <<qc_mt, num_samples, qc_rows, num_variants>>
    /\ UNCHANGED notCallrateVars

StepCallrate ==
    \/ CountSamples
    \/ FilterHighCallrateVariants
    \/ AnnotateCallrateAdj

\* ============================== subpop_analysis.py, main, --run-subpop-pca
SubpopArgs == [include_unreleasable_samples : BOOLEAN, high_quality : BOOLEAN]

\* the sample metadata the stage reads for a column of the subpop QC MT
SubpopMetaRows ==
    [pop : {"nfe", "afr"}, hard_filtered : BOOLEAN, releasable : BOOLEAN,
     exclude : BOOLEAN]

\* the names bound at module level that main can call
SubpopModuleNames ==
    {"compute_subpop_qc_mt", "filter_subpop_qc_mt", "annotate_subpop_meta", "main"}

IdleSubpop ==
    /\ sp_pc = "idle"
    /\ sp_args = << >>
    /\ sp_meta = << >>
    /\ sp_mt_cols = {}
    /\ pca_samples = None
    /\ sp_error = "none"

StartSubpop ==
    /\ sp_pc = "read"
    /\ sp_args \in SubpopArgs
    /\ sp_meta \in [Samples -> SubpopMetaRows]
    /\ sp_mt_cols = {}
    /\ pca_samples = None
    /\ sp_error = "none"

\* mt = subpop_qc.mt()
ReadSubpopQcMt ==
    /\ sp_pc = "read"
    /\ sp_mt_cols' = Samples
    /\ sp_pc' = "filter"
    /\ UNCHANGED <<sp_args, sp_meta, pca_samples, sp_error>>
    /\ UNCHANGED notSubpopVars

\* mt = filter_subpop_qc(mt, pop, ...): the name is looked up before the
\* arguments are evaluated; the module binds filter_subpop_qc_mt only, so
\* the lookup raises NameError and main is left
CallFilterSubpopQc ==
    /\ sp_pc = "filter"
    /\ "filter_subpop_qc" \notin SubpopModuleNames
    /\ sp_error' = "NameError"
    /\ sp_pc' = "raised"
    /\ UNCHANGED <<sp_args, sp_meta, sp_mt_cols, pca_samples>>
    /\ UNCHANGED notSubpopVars

StepSubpop ==
    \/ ReadSubpopQcMt
    \/ CallFilterSubpopQc

\* ========================================== interval_qc.py, filter_to_test
NumCoverageSamples == 3
CoverageSamples == 1..NumCoverageSamples

\* MatrixTable.anti_join_cols(other): the columns whose key is not in other
anti_join_cols(cols, other) == cols \ other

IdleFilterToTest ==
    /\ ft_pc = "idle"
    /\ ft_mt_in = {}
    /\ ft_sex_mt_in = {}
    /\ ft_mt = {}
    /\ ft_sex_mt = {}

\* the columns of the coverage MT and of the sex coverage MT
StartFilterToTest ==
    /\ ft_pc = "join"
    /\ ft_mt_in \in SUBSET CoverageSamples
    /\ ft_sex_mt_in \in SUBSET CoverageSamples
    /\ ft_mt = ft_mt_in
    /\ ft_sex_mt = ft_sex_mt_in

\* mt = mt.anti_join_cols(sex_mt.cols()), then
\* sex_mt = sex_mt.anti_join_cols(mt.cols()) with the mt just assigned
JoinCols ==
    /\ ft_pc = "join"
    /\ ft_mt' = anti_join_cols(ft_mt, ft_sex_mt)
    /\ ft_sex_mt' = anti_join_cols(ft_sex_mt, ft_mt')
    /\ ft_pc' = "partitions"
    /\ UNCHANGED <<ft_mt_in, ft_sex_mt_in>>
    /\ UNCHANGED notFilterToTestVars

\* _filter_partitions, filter_rows and union_rows change rows only
FilterPartitions ==
    /\ ft_pc = "partitions"
    /\ ft_pc' = "returned"
    /\ UNCHANGED <<ft_mt_in, ft_sex_mt_in, ft_mt, ft_sex_mt>>
    /\ UNCHANGED notFilterToTestVars

StepFilterToTest ==
    \/ JoinCols
    \/ FilterPartitions

\* ======================================= assign_ancestry.py, main, --assign-pops
AssignedPops == [Samples -> {"afr", "nfe"}]

\* what one run of assign_pops produces: run 1 is an earlier invocation,
\* run 2 the current one
RunOutputs(run) == {[run |-> run, pops |-> p] : p \in AssignedPops}

IdleAssignMain ==
    /\ am_pc = "idle"
    /\ am_overwrite = FALSE
    /\ am_pop_ht = None
    /\ am_rf_model = None
    /\ pop_ht_file = None
    /\ pop_tsv_file = None
    /\ pop_rf_file = None

\* the output location is empty or holds the three outputs of an earlier run
StartAssignMain ==
    /\ am_pc = "assign_pops"
    /\ am_overwrite \in BOOLEAN
    /\ am_pop_ht = None
    /\ am_rf_model = None
    /\ pop_ht_file \in {None} \cup {Some(o) : o \in RunOutputs(1)}
    /\ pop_tsv_file = pop_ht_file
    /\ pop_rf_file = pop_ht_file

\* pop_ht, pops_rf_model = assign_pops(...)
CallAssignPops ==
    /\ am_pc = "assign_pops"
    /\ \E o \in RunOutputs(2) :
           /\ am_pop_ht' = Some(o)
           /\ am_rf_model' = Some(o)
    /\ am_pc' = "checkpoint"
    /\ UNCHANGED <<am_overwrite, pop_ht_file, pop_tsv_file, pop_rf_file>>
    /\ UNCHANGED notAssignMainVars

\* Table.checkpoint(path, overwrite, _read_if_exists): with _read_if_exists
\* and a table at the path nothing is written; the table at the path is read
\* back in both cases
checkpoint(ht, file, overwrite, read_if_exists) ==
    IF read_if_exists /\ file # None THEN file ELSE ht

\* pop_ht.checkpoint(get_pop_ht(test).path, overwrite=overwrite,
\*                   _read_if_exists=not overwrite)
CheckpointPopHt ==
    /\ am_pc = "checkpoint"
    /\ pop_ht_file' = checkpoint(am_pop_ht, pop_ht_file, am_overwrite, ~am_overwrite)
    /\ am_pop_ht' = pop_ht_file'
    /\ am_pc' = "export"
    /\ UNCHANGED <<am_overwrite, am_rf_model, pop_tsv_file, pop_rf_file>>
    /\ UNCHANGED notAssignMainVars

\* pop_ht.transmute(...).export(pop_tsv_path(test))
ExportPopTsv ==
    /\ am_pc = "export"
    /\ pop_tsv_file' = am_pop_ht
    /\ am_pc' = "dump"
    /\ UNCHANGED <<am_overwrite, am_pop_ht, am_rf_model, pop_ht_file, pop_rf_file>>
    /\ UNCHANGED notAssignMainVars

\* with hl.hadoop_open(pop_rf_path(test), "wb") as out: pickle.dump(...)
DumpRfModel ==
    /\ am_pc = "dump"
    /\ pop_rf_file' = am_rf_model
    /\ am_pc' = "done"
    /\ UNCHANGED <<am_overwrite, am_pop_ht, am_rf_model, pop_ht_file, pop_tsv_file>>
    /\ UNCHANGED notAssignMainVars

StepAssignMain ==
    \/ CallAssignPops
    \/ CheckpointPopHt
    \/ ExportPopTsv
    \/ DumpRfModel

\* =============================================== interval_qc.py, __main__
\* the attributes parse_args gives the namespace: one per add_argument
IntervalQcArgNames ==
    {"overwrite", "test", "slack_channel", "sex_imputation_interval_coverage",
     "calling_interval_name", "calling_interval_padding"}

IntervalQcArgs ==
    [overwrite : BOOLEAN, test : BOOLEAN, slack_channel : BOOLEAN,
     sex_imputation_interval_coverage : BOOLEAN,
     calling_interval_name : {None, Some("ukb"), Some("broad"), Some("intersection")},
     calling_interval_padding : {None, Some(0), Some(50)}]

IdleIntervalQc ==
    /\ iq_pc = "idle"
    /\ iq_args = << >>
    /\ iq_main_calls = 0
    /\ iq_writes = 0
    /\ iq_error = "none"

\* args = parser.parse_args(), on an empty output location
StartIntervalQc ==
    /\ iq_pc = "parsed"
    /\ iq_args \in IntervalQcArgs
    /\ iq_main_calls = 0
    /\ iq_writes = 0
    /\ iq_error = "none"

\* main(args), the unconditional call that follows parse_args
CallMain ==
    /\ iq_pc = "parsed"
    /\ iq_main_calls' = iq_main_calls + 1
    /\ iq_pc' = "main"
    /\ UNCHANGED <<iq_args, iq_writes, iq_error>>
    /\ UNCHANGED notIntervalQcVars

\* if args.sex_chr_interval_coverage: the namespace has no such attribute
\* (the option is --sex-imputation-interval-coverage), the test raises
TestSexChrIntervalCoverage ==
    /\ iq_pc = "main"
    /\ "sex_chr_interval_coverage" \notin IntervalQcArgNames
    /\ iq_error' = "AttributeError"
    /\ iq_pc' = "finally"
    /\ UNCHANGED <<iq_args, iq_main_calls, iq_writes>>
    /\ UNCHANGED notIntervalQcVars

\* finally: hl.copy_log(...); the exception leaves main and ends the script
CopyIntervalQcLog ==
    /\ iq_pc = "finally"
    /\ iq_pc' = "exit"
    /\ UNCHANGED <<iq_args, iq_main_calls, iq_writes, iq_error>>
    /\ UNCHANGED notIntervalQcVars

StepIntervalQc ==
    \/ CallMain
    \/ TestSexChrIntervalCoverage
    \/ CopyIntervalQcLog

\* =================== create_sample_qc_metadata_ht.py, add_annotations
NumAnnSamples == 3
AnnSamples == 1..NumAnnSamples

\* gnomad's compare_row_counts: whether the two tables have as many rows
compare_row_counts(ht1, ht2) == Cardinality(ht1) = Cardinality(ht2)

\* _sample_check: the samples of ht1 neither in ht2 nor approved, which the
\* warning lists (an empty or absent approved list filters nothing)
SampleCheck(ht1, ht2, approved_missing) == (ht1 \ ht2) \ approved_missing

IdleAddAnnotations ==
    /\ aa_pc = "idle"
    /\ aa_ht = {}
    /\ aa_ann_ht = {}
    /\ ht_missing = {}
    /\ ann_ht_missing = {}
    /\ sample_count_match = FALSE
    /\ aa_warned = {}
    /\ aa_out = << >>

StartAddAnnotations ==
    /\ aa_pc = "check"
    /\ aa_ht \in SUBSET AnnSamples
    /\ aa_ann_ht \in SUBSET AnnSamples
    /\ ht_missing \in SUBSET AnnSamples
    /\ ann_ht_missing \in SUBSET AnnSamples
    /\ sample_count_match \in BOOLEAN
    /\ aa_warned = {}
    /\ aa_out = << >>

\* if sample_count_match: if not compare_row_counts(ht, ann_ht): the two
\* _sample_check calls, else "Sample counts match."
CheckSampleCounts ==
    /\ aa_pc = "check"
    /\ aa_warned' =
           IF sample_count_match /\ ~compare_row_counts(aa_ht, aa_ann_ht)
           THEN SampleCheck(aa_ht, aa_ann_ht, ann_ht_missing)
                  \cup SampleCheck(aa_ann_ht, aa_ht, ht_missing)
           ELSE {}
    /\ aa_pc' = "annotate"
    /\ UNCHANGED <<aa_ht, aa_ann_ht, ht_missing, ann_ht_missing,
                   sample_count_match, aa_out>>
    /\ UNCHANGED notAddAnnotationsVars

\* ht.annotate(**ann) with ann = ann_ht[ht.key]: every row of ht stays, the
\* annotation is defined for the samples ann_ht has
AnnotateFromAnnHt ==
    /\ aa_pc = "annotate"
    /\ aa_out' = [s \in aa_ht |-> B3(s \in aa_ann_ht)]
    /\ aa_pc' = "returned"
    /\ UNCHANGED <<aa_ht, aa_ann_ht, ht_missing, ann_ht_missing,
                   sample_count_match, aa_warned>>
    /\ UNCHANGED notAddAnnotationsVars

StepAddAnnotations ==
    \/ CheckSampleCounts
    \/ AnnotateFromAnnHt

\* ========================================================= specifications
InitPops ==
    /\ StartPops /\ IdleRelated /\ IdleVariantAnn /\ IdleHardFilters
    /\ IdleMeta /\ IdleFreq /\ IdleRelSet /\ IdleRelDict /\ IdleSubset /\ IdleDense /\ IdleOutliers /\ IdleCallrate /\ IdleSubpop /\ IdleFilterToTest /\ IdleAssignMain /\ IdleIntervalQc /\ IdleAddAnnotations
NextPops == StepPops
SpecPops == InitPops /\ [][NextPops]_vars
\* a sequential Python function keeps running until it returns or raises
FairSpecPops == SpecPops /\ WF_vars(NextPops)

InitRelated ==
    /\ StartRelated /\ IdlePops /\ IdleVariantAnn /\ IdleHardFilters
    /\ IdleMeta /\ IdleFreq /\ IdleRelSet /\ IdleRelDict /\ IdleSubset /\ IdleDense /\ IdleOutliers /\ IdleCallrate /\ IdleSubpop /\ IdleFilterToTest /\ IdleAssignMain /\ IdleIntervalQc /\ IdleAddAnnotations
NextRelated == StepRelated
SpecRelated == InitRelated /\ [][NextRelated]_vars

InitVariantAnn ==
    /\ StartVariantAnn /\ IdlePops /\ IdleRelated /\ IdleHardFilters
    /\ IdleMeta /\ IdleFreq /\ IdleRelSet /\ IdleRelDict /\ IdleSubset /\ IdleDense /\ IdleOutliers /\ IdleCallrate /\ IdleSubpop /\ IdleFilterToTest /\ IdleAssignMain /\ IdleIntervalQc /\ IdleAddAnnotations
NextVariantAnn == StepVariantAnn
SpecVariantAnn == InitVariantAnn /\ [][NextVariantAnn]_vars

InitHardFilters ==
    /\ StartHardFilters /\ IdlePops /\ IdleRelated /\ IdleVariantAnn
    /\ IdleMeta /\ IdleFreq /\ IdleRelSet /\ IdleRelDict /\ IdleSubset /\ IdleDense /\ IdleOutliers /\ IdleCallrate /\ IdleSubpop /\ IdleFilterToTest /\ IdleAssignMain /\ IdleIntervalQc /\ IdleAddAnnotations
NextHardFilters == StepHardFilters
SpecHardFilters == InitHardFilters /\ [][NextHardFilters]_vars

InitMeta ==
    /\ StartMeta /\ IdlePops /\ IdleRelated /\ IdleVariantAnn
    /\ IdleHardFilters /\ IdleFreq /\ IdleRelSet /\ IdleRelDict /\ IdleSubset /\ IdleDense /\ IdleOutliers /\ IdleCallrate /\ IdleSubpop /\ IdleFilterToTest /\ IdleAssignMain /\ IdleIntervalQc /\ IdleAddAnnotations
NextMeta == StepMeta
SpecMeta == InitMeta /\ [][NextMeta]_vars

InitFreq ==
    /\ StartFreq /\ IdlePops /\ IdleRelated /\ IdleVariantAnn
    /\ IdleHardFilters /\ IdleMeta /\ IdleRelSet /\ IdleRelDict /\ IdleSubset /\ IdleDense /\ IdleOutliers /\ IdleCallrate /\ IdleSubpop /\ IdleFilterToTest /\ IdleAssignMain /\ IdleIntervalQc /\ IdleAddAnnotations
NextFreq == StepFreq
SpecFreq == InitFreq /\ [][NextFreq]_vars

InitRelSet ==
    /\ StartRelSet /\ IdlePops /\ IdleRelated /\ IdleVariantAnn
    /\ IdleHardFilters /\ IdleMeta /\ IdleFreq /\ IdleRelDict /\ IdleSubset /\ IdleDense /\ IdleOutliers /\ IdleCallrate /\ IdleSubpop /\ IdleFilterToTest /\ IdleAssignMain /\ IdleIntervalQc /\ IdleAddAnnotations
NextRelSet == StepRelSet
SpecRelSet == InitRelSet /\ [][NextRelSet]_vars

InitRelDict ==
    /\ StartRelDict /\ IdlePops /\ IdleRelated /\ IdleVariantAnn
    /\ IdleHardFilters /\ IdleMeta /\ IdleFreq /\ IdleRelSet /\ IdleSubset /\ IdleDense /\ IdleOutliers /\ IdleCallrate /\ IdleSubpop /\ IdleFilterToTest /\ IdleAssignMain /\ IdleIntervalQc /\ IdleAddAnnotations
NextRelDict == StepRelDict
SpecRelDict == InitRelDict /\ [][NextRelDict]_vars

InitSubset ==
    /\ StartSubset /\ IdlePops /\ IdleRelated /\ IdleVariantAnn
    /\ IdleHardFilters /\ IdleMeta /\ IdleFreq /\ IdleRelSet /\ IdleRelDict /\ IdleDense /\ IdleOutliers /\ IdleCallrate /\ IdleSubpop /\ IdleFilterToTest /\ IdleAssignMain /\ IdleIntervalQc /\ IdleAddAnnotations
NextSubset == StepSubset
SpecSubset == InitSubset /\ [][NextSubset]_vars

InitDense ==
    /\ StartDense /\ IdlePops /\ IdleRelated /\ IdleVariantAnn
    /\ IdleHardFilters /\ IdleMeta /\ IdleFreq /\ IdleRelSet /\ IdleRelDict
    /\ IdleSubset /\ IdleOutliers /\ IdleCallrate /\ IdleSubpop /\ IdleFilterToTest /\ IdleAssignMain /\ IdleIntervalQc /\ IdleAddAnnotations
NextDense == StepDense
SpecDense == InitDense /\ [][NextDense]_vars

InitOutliers ==
    /\ StartOutliers /\ IdlePops /\ IdleRelated /\ IdleVariantAnn
    /\ IdleHardFilters /\ IdleMeta /\ IdleFreq /\ IdleRelSet /\ IdleRelDict
    /\ IdleSubset /\ IdleDense /\ IdleCallrate /\ IdleSubpop /\ IdleFilterToTest /\ IdleAssignMain /\ IdleIntervalQc /\ IdleAddAnnotations
NextOutliers == StepOutliers
SpecOutliers == InitOutliers /\ [][NextOutliers]_vars

InitCallrate ==
    /\ StartCallrate /\ IdlePops /\ IdleRelated /\ IdleVariantAnn
    /\ IdleHardFilters /\ IdleMeta /\ IdleFreq /\ IdleRelSet /\ IdleRelDict
    /\ IdleSubset /\ IdleDense /\ IdleOutliers /\ IdleSubpop /\ IdleFilterToTest /\ IdleAssignMain /\ IdleIntervalQc /\ IdleAddAnnotations
NextCallrate == StepCallrate
SpecCallrate == InitCallrate /\ [][NextCallrate]_vars

InitSubpop ==
    /\ StartSubpop /\ IdlePops /\ IdleRelated /\ IdleVariantAnn
    /\ IdleHardFilters /\ IdleMeta /\ IdleFreq /\ IdleRelSet /\ IdleRelDict
    /\ IdleSubset /\ IdleDense /\ IdleOutliers /\ IdleCallrate /\ IdleFilterToTest /\ IdleAssignMain /\ IdleIntervalQc /\ IdleAddAnnotations
NextSubpop == StepSubpop
SpecSubpop == InitSubpop /\ [][NextSubpop]_vars

InitFilterToTest ==
    /\ StartFilterToTest /\ IdlePops /\ IdleRelated /\ IdleVariantAnn
    /\ IdleHardFilters /\ IdleMeta /\ IdleFreq /\ IdleRelSet /\ IdleRelDict
    /\ IdleSubset /\ IdleDense /\ IdleOutliers /\ IdleCallrate /\ IdleSubpop /\ IdleAssignMain /\ IdleIntervalQc /\ IdleAddAnnotations
NextFilterToTest == StepFilterToTest
SpecFilterToTest == InitFilterToTest /\ [][NextFilterToTest]_vars

InitAssignMain ==
    /\ StartAssignMain /\ IdlePops /\ IdleRelated /\ IdleVariantAnn
    /\ IdleHardFilters /\ IdleMeta /\ IdleFreq /\ IdleRelSet /\ IdleRelDict
    /\ IdleSubset /\ IdleDense /\ IdleOutliers /\ IdleCallrate /\ IdleSubpop
    /\ IdleFilterToTest /\ IdleIntervalQc /\ IdleAddAnnotations
NextAssignMain == StepAssignMain
SpecAssignMain == InitAssignMain /\ [][NextAssignMain]_vars

InitIntervalQc ==
    /\ StartIntervalQc /\ IdlePops /\ IdleRelated /\ IdleVariantAnn
    /\ IdleHardFilters /\ IdleMeta /\ IdleFreq /\ IdleRelSet /\ IdleRelDict
    /\ IdleSubset /\ IdleDense /\ IdleOutliers /\ IdleCallrate /\ IdleSubpop
    /\ IdleFilterToTest /\ IdleAssignMain /\ IdleAddAnnotations
NextIntervalQc == StepIntervalQc
SpecIntervalQc == InitIntervalQc /\ [][NextIntervalQc]_vars

InitAddAnnotations ==
    /\ StartAddAnnotations /\ IdlePops /\ IdleRelated /\ IdleVariantAnn
    /\ IdleHardFilters /\ IdleMeta /\ IdleFreq /\ IdleRelSet /\ IdleRelDict
    /\ IdleSubset /\ IdleDense /\ IdleOutliers /\ IdleCallrate /\ IdleSubpop
    /\ IdleFilterToTest /\ IdleAssignMain /\ IdleIntervalQc
NextAddAnnotations == StepAddAnnotations
SpecAddAnnotations == InitAddAnnotations /\ [][NextAddAnnotations]_vars

\* ------------------------------------------------------------ assign_pops
Mismatched(ht) ==
    {s \in Samples : ht[s].training_pop # NA /\ ht[s].training_pop # ht[s].pop}
Labeled(ht) == {s \in Samples : ht[s].training_pop # NA}

\* C1: assign_pops performs finitely many fits and then returns or raises,
\* whatever the classifier predicts.
AssignPopsTerminates == <>(ap_pc \in {"returned", "raised"})

\* C6: assign_pops returns only when the metric of its last fit is at most
\* the configured maximum (count in count mode, proportion in proportion
\* mode), and the returned globals are the count and proportion of that fit.
ReturnsWithinMaximum ==
    ap_pc = "returned" =>
        LET n == Cardinality(Mismatched(pop_ht))
            d == Cardinality(Labeled(pop_ht))
        IN  /\ max_number_mislabeled_training_samples # None =>
                   n <= Val(max_number_mislabeled_training_samples)
            /\ max_proportion_mislabeled_training_samples # None =>
                   ~Gt(<<n, d>>, Val(max_proportion_mislabeled_training_samples))
            /\ ap_globals.n_mislabeled_training_samples = n
            /\ ap_globals.prop_mislabeled_training_samples = <<n, d>>

ReturnsWithinMaximumWitness ==
    /\ ap_pc = "returned"
    /\ max_number_mislabeled_training_samples = Some(0)
    /\ n_fits >= 2
    /\ Cardinality(Labeled(pop_ht)) >= 1

\* C7: assign_pops refits exactly when the metric of the latest fit exceeds
\* the maximum: one fit when the first fit is within the maximum, at least
\* two otherwise, and pop_assignment_iterations is the number of fits.
FirstFitExceeds ==
    IF max_number_mislabeled_training_samples # None
    THEN first_fit[1] > Val(max_number_mislabeled_training_samples)
    ELSE Gt(first_fit, Val(max_proportion_mislabeled_training_samples))

RefitsExactlyWhenExceeded ==
    ap_pc = "returned" =>
        /\ ap_globals.pop_assignment_iterations = n_fits
        /\ ~FirstFitExceeds => n_fits = 1
        /\ FirstFitExceeds => n_fits >= 2

RefitsExactlyWhenExceededWitness ==
    /\ ap_pc = "returned"
    /\ max_number_mislabeled_training_samples = Some(1)
    /\ first_fit[1] = 2
    /\ ap_globals.pop_assignment_iterations = 2

\* C8: the pruning step leaves the defined training_pop of every sample
\* with hgdp_or_tgp = true as it was, matched prediction or not.
ReferenceLabelsKept ==
    ap_pc = "refit" =>
        \A s \in Samples :
            (pop_pca_scores_ht[s].hgdp_or_tgp = "T" /\ pop_ht[s].training_pop # NA)
                => pop_pca_scores_ht[s].training_pop = pop_ht[s].training_pop

ReferenceLabelsKeptWitness ==
    /\ ap_pc = "refit"
    /\ \E s \in Samples :
           /\ pop_pca_scores_ht[s].hgdp_or_tgp = "T"
           /\ s \in Mismatched(pop_ht)
           /\ pop_pca_scores_ht[s].training_pop # NA

\* C9: the proportion is mismatches over samples with a defined
\* training_pop; a sample without one (withheld or never labelled) is in
\* neither count.
ProportionOverDefinedLabels ==
    ap_pc = "while" =>
        LET unlabeled == {s \in Samples : pop_ht[s].training_pop = NA}
            matched == {s \in Samples : pop_ht[s].training_pop = pop_ht[s].pop}
            d == NumSamples - Cardinality(unlabeled)
        IN  /\ prop_mislabeled_samples = <<d - Cardinality(matched), d>>
            /\ n_mislabeled_samples = d - Cardinality(matched)
            /\ \A s \in Samples :
                   pop_pca_scores_ht[s].withheld_sample = "T" => s \in unlabeled

ProportionOverDefinedLabelsWitness ==
    /\ ap_pc = "while"
    /\ n_fits = 1
    /\ \E s \in Samples : pop_pca_scores_ht[s].withheld_sample = "T"
    /\ prop_mislabeled_samples = <<1, 1>>

\* C16: assign_pops never returns a population table fitted on an empty
\* training set: when pruning leaves no sample with a defined training_pop
\* the call raises.
NeverReturnsFromEmptyTraining ==
    /\ ap_pc = "returned" =>
           /\ Labeled(pop_ht) # {}
           /\ \E s \in Samples : pop_pca_scores_ht[s].training_pop # NA
    /\ (ap_pc \in {"while", "returned"} /\ max_mislabeled # None) =>
           Labeled(pop_ht) # {}

NeverReturnsFromEmptyTrainingWitness ==
    /\ ap_pc = "raised"
    /\ ap_error = "ZeroDivisionError"
    /\ n_fits >= 2
    /\ \A s \in Samples : pop_pca_scores_ht[s].training_pop = NA
    /\ \E s \in Samples : pop_pca_scores_ht[s].original_training_pop # NA

\* C17: with both maxima set assign_pops raises ValueError before it reads
\* the PCA scores, fits a classifier or writes a checkpoint.
BothSetRaisesFirst ==
    (/\ max_number_mislabeled_training_samples # None
     /\ max_proportion_mislabeled_training_samples # None) =>
        /\ ap_pc \in {"args", "raised"}
        /\ ap_pc = "raised" => ap_error = "ValueError"
        /\ pop_pca_scores_ht = << >>
        /\ pop_ht = << >>
        /\ n_fits = 0
        /\ pop_assignment_iter = 0

BothSetRaisesFirstWitness ==
    /\ ap_pc = "raised"
    /\ ap_error = "ValueError"
    /\ max_number_mislabeled_training_samples = Some(1)
    /\ max_proportion_mislabeled_training_samples = Some(<<1, 2>>)

\* C18: with neither maximum set assign_pops raises the configuration
\* ValueError before any classifier fit.
NeitherSetRaisesValueError ==
    (/\ max_number_mislabeled_training_samples = None
     /\ max_proportion_mislabeled_training_samples = None
     /\ ap_pc # "args") =>
        /\ ap_pc = "raised"
        /\ ap_error = "ValueError"
        /\ n_fits = 0

\* a step of the loop, seen on the training labels
LabelsShrinkStep ==
    ap_pc \in {"fit", "while", "refit"} =>
        \A s \in Samples :
            LET old == pop_pca_scores_ht[s].training_pop
                new == pop_pca_scores_ht'[s].training_pop
            IN  /\ new # NA => new = old
                /\ (old # NA /\ new = NA) => pop_ht[s].pop # old

\* C29: across the iterations of the loop no sample gains a training label,
\* no defined training label changes, a label is removed only from a sample
\* whose prediction differs from it, and original_training_pop of the
\* returned table is the label each sample had before withholding and
\* before the first fit.
TrainingLabelsOnlyShrink ==
    /\ [][LabelsShrinkStep]_vars
    /\ [](ap_pc = "returned" =>
            \A s \in Samples :
                ap_globals.original_training_pop[s] = TrainingPopExpr(joint_meta[s]))

TrainingLabelsOnlyShrinkWitness ==
    /\ ap_pc = "returned"
    /\ withhold_prop
    /\ pop_assignment_iter >= 2
    /\ \E s \in Samples :
           /\ pop_pca_scores_ht[s].original_training_pop # NA
           /\ pop_pca_scores_ht[s].withheld_sample = "F"
           /\ pop_pca_scores_ht[s].training_pop = NA
    /\ \E s \in Samples : pop_pca_scores_ht[s].training_pop # NA

\* ------------------------------------------------------------ relatedness
\* C2: when the --compute-related-samples-to-drop stage has run, the drop
\* set is written and no two samples outside it form a pair of the
\* relatedness table with kinship at or above the second-degree cutoff.
KeptSamplesUnrelated ==
    rel_pc = "exit" =>
        /\ pca_related_samples_to_drop # None
        /\ \A p \in Pairs :
               relatedness_ht[p] >= second_degree_kin_cutoff =>
                   (p[1] \in Val(pca_related_samples_to_drop)
                    \/ p[2] \in Val(pca_related_samples_to_drop))

\* C15: in the rank table every sample gets a distinct rank, and the ranks
\* follow the priority rule: not hard-filtered before hard-filtered, then
\* present_in_v3 AND releasable before the others, then releasable before
\* unreleasable, then higher chr20_mean_dp before lower.
RanksFollowPriority ==
    rel_pc \in {"select", "finally", "exit"} =>
        LET r == rank_ht.rows
            v3rel(s) == r[s].present_in_v3 /\ r[s].releasable
        IN  /\ \A s, t \in Samples : s # t => r[s].rank # r[t].rank
            /\ \A s, t \in Samples :
                   /\ (~r[s].hard_filtered /\ r[t].hard_filtered)
                          => r[s].rank < r[t].rank
                   /\ (/\ r[s].hard_filtered = r[t].hard_filtered
                       /\ v3rel(s) /\ ~v3rel(t)) => r[s].rank < r[t].rank
                   /\ (/\ r[s].hard_filtered = r[t].hard_filtered
                       /\ v3rel(s) = v3rel(t)
                       /\ r[s].releasable /\ ~r[t].releasable)
                          => r[s].rank < r[t].rank
                   /\ (/\ r[s].hard_filtered = r[t].hard_filtered
                       /\ v3rel(s) = v3rel(t)
                       /\ r[s].releasable = r[t].releasable
                       /\ r[s].chr20_mean_dp > r[t].chr20_mean_dp)
                          => r[s].rank < r[t].rank

RanksFollowPriorityWitness ==
    /\ rel_pc = "select"
    /\ rank_ht.rows[1].hard_filtered = rank_ht.rows[2].hard_filtered
    /\ rank_ht.rows[1].releasable = rank_ht.rows[2].releasable
    /\ rank_ht.rows[1].present_in_v3 = rank_ht.rows[2].present_in_v3
    /\ rank_ht.rows[1].chr20_mean_dp < rank_ht.rows[2].chr20_mean_dp
    /\ rank_ht.rows[2].rank = 0
    /\ rank_ht.rows[1].rank = 1

\* C19: a second run of the stage on unchanged inputs completes and leaves
\* the sample-ranking table and the samples-to-drop table equal to those of
\* the first run.
RerunLeavesSameTables ==
    (rel_run = 2 /\ rel_pc = "exit") =>
        /\ rel_error = "none"
        /\ pca_samples_rankings # None
        /\ pca_related_samples_to_drop # None
        /\ pca_samples_rankings = rel_first_run.pca_samples_rankings
        /\ pca_related_samples_to_drop =
               rel_first_run.pca_related_samples_to_drop

\* ---------------------------------------------- prepare_variant_annotations
\* C3: gnomad_freq and gnomad_freq_meta have the same length, gnomad_freq[i]
\* is the release entry that gnomad_freq_meta[i] described, and every value
\* of gnomad_freq_index_dict is an index into gnomad_freq naming the entry
\* it named in the release.
GnomadFreqMatchesMeta ==
    va_pc = "done" =>
        /\ Len(gnomad_freq) = Len(gnomad_freq_meta)
        /\ \A i \in 1..Len(gnomad_freq_meta) :
               i <= Len(gnomad_freq) /\ gnomad_freq[i].stratum = gnomad_freq_meta[i]
        /\ \A k \in DOMAIN gnomad_freq_index_dict :
               /\ gnomad_freq_index_dict[k] + 1 \in 1..Len(gnomad_freq)
               /\ gnomad_freq[gnomad_freq_index_dict[k] + 1] =
                      release_freq[release_freq_index_dict[k] + 1]

MetaBooleansDefined ==
    mt_pc = "done" =>
        LET has_reason == /\ mt_sample.hard_filters_row # None
                          /\ Val(mt_sample.hard_filters_row) # {}
            outlier == meta_ht.sample_filters.outlier_filtered
            related ==
                meta_ht.sample_filters.relatedness_filters.release_related
            hq == And3(B3(~has_reason), Not3(outlier))
        IN  /\ meta_ht.sample_filters.hard_filtered = B3(has_reason)
            /\ meta_ht.high_quality = hq
            /\ meta_ht.release =
                   And3(And3(mt_sample.releasable, hq), Not3(related))
            /\ (/\ mt_sample.releasable = "T"
                /\ ~has_reason
                /\ mt_sample.outlier_row = Some("F")
                /\ ~mt_sample.in_release_related_samples_to_drop)
               => (meta_ht.high_quality = "T" /\ meta_ht.release = "T")

\* ---------------------------------------------------- generate_freq_data
\* C10: main raises ValueError before it reads any data whenever the
\* requested subsets mix a cohort of COHORTS_WITH_POP_STORED_AS_SUBPOP with
\* a cohort that stores ancestry as population, and raises no such error
\* when all the requested subsets are of one kind.
MixedSubsetsFailFast ==
    LET valid == \A i \in 1..Len(subsets) : subsets[i] \in SUBSETS
        n == CountUseSubpops(subsets)
        mixed == n > 0 /\ n < Len(subsets)
    IN  (fq_pc \notin {"idle", "validate"} /\ valid) =>
            /\ mixed => (fq_error = "ValueError" /\ ~fq_read)
            /\ ~mixed => fq_error = "none"

\* --------------------------------------------- prepare_sample_annotations
\* the structs of every pair of the filtered pair table that holds sample x
AllRelatedStructs(t, x) ==
    {RelatedStruct(p[2], Val(t[p])) : p \in {q \in PairRows(t) : q[1] = x}}
    \cup {RelatedStruct(p[1], Val(t[p])) : p \in {q \in PairRows(t) : q[2] = x}}

\* C11: for every sample of the subset, related_samples holds one struct
\* for every pair of the relatedness table in which the sample appears, in
\* the i role or in the j role, all in one set.
RelatedSamplesBothRoles ==
    rs_pc = "done" =>
        \A x \in subset_samples :
            related_samples[x] = AllRelatedStructs(rs_relatedness_ht, x)

\* C12: the table returned by get_relatedness_set_ht has at most one row
\* per sample ID s.
OneRowPerSample ==
    rs_pc \in {"select", "done"} =>
        \A r1, r2 \in relatedness_set_ht : r1.s = r2.s => r1 = r2

\* --------------------------------------------------- annotate_relatedness
\* C13: in the relatedness table of annotate_relatedness every sample has a
\* defined relationships value; a sample in no exomes-exomes pair other
\* than UNRELATED has an empty collection.
RelationshipsDefined ==
    rd_pc = "done" =>
        \A x \in RelatedSamples :
            /\ relationships[x] # None
            /\ (ExomePairs(rd_relatedness_ht, rd_data_type)
                    \cap {p \in RelatedPairs : x \in {p[1], p[2]}} = {})
               => (relationships[x] # None /\ DOMAIN Val(relationships[x]) = {})

\* ------------------------------------------- create_hgdp_tgp_subset, main
\* a requested stage needs a resource that was not there at the start and
\* that no requested earlier stage produces
NeedsMissingResource ==
    \/ /\ (\/ ts_args.export_sample_annotation_tsv
           \/ ts_args.create_subset_sparse_mt
           \/ ts_args.create_subset_dense_mt)
       /\ "sample_annotation" \notin ts_files_before
       /\ ~ts_args.create_sample_annotation_ht
    \/ /\ (ts_args.create_variant_annotation_ht \/ ts_args.create_subset_dense_mt)
       /\ "sparse_mt" \notin ts_files_before
       /\ ~ts_args.create_subset_sparse_mt
    \/ /\ ts_args.create_subset_dense_mt
       /\ "variant_annotation" \notin ts_files_before
       /\ ~ts_args.create_variant_annotation_ht

\* C20: in --test mode, when a requested stage needs an upstream test
\* resource that does not exist and is not produced earlier in the same
\* invocation, the run raises DataException and no output of any requested
\* stage has been written in that invocation. (Stated for the runs in which
\* no write was refused over an existing path.)
MissingResourceFailsBeforeWrites ==
    (/\ ts_pc \in {"done", "raised"}
     /\ ts_args.test
     /\ NeedsMissingResource
     /\ ts_error # "FatalError") =>
        /\ ts_pc = "raised"
        /\ ts_error = "DataException"
        /\ ts_written = {}

\* ------------------------------------------ variant table and dense MT
\* C21: the variant annotation table keeps every variant, the AS_lowqual and
\* telomere/centromere ones included, with its two flags, and every row of
\* the dense matrix has AS_lowqual = false and telomere_or_centromere = false.
FlaggedVariantsLeaveOnlyDenseMt ==
    /\ dm_pc \in {"dense", "done"} =>
           \A v \in Variants :
               sparse_rows[v].n_alleles > 1 =>
                   /\ v \in DOMAIN variant_annotation_ht
                   /\ variant_annotation_ht[v].AS_lowqual = sparse_rows[v].AS_lowqual
                   /\ variant_annotation_ht[v].telomere_or_centromere =
                          B3(sparse_rows[v].telomere)
    /\ dm_pc = "done" =>
           \A v \in dense_mt_rows :
               /\ sparse_rows[v].AS_lowqual = "F"
               /\ ~sparse_rows[v].telomere

FlaggedVariantsLeaveOnlyDenseMtWitness ==
    /\ dm_pc = "done"
    /\ \E v \in Variants :
           /\ sparse_rows[v].n_alleles > 1
           /\ sparse_rows[v].AS_lowqual = "T"
           /\ v \in DOMAIN variant_annotation_ht
           /\ v \notin dense_mt_rows
    /\ \E v \in Variants :
           /\ sparse_rows[v].telomere
           /\ sparse_rows[v].n_alleles > 1
           /\ v \notin dense_mt_rows
    /\ dense_mt_rows # {}

\* ------------------------------------- get_sample_qc_filter_struct_expr
\* C22: get_sample_qc_filter_struct_expr raises ValueError whenever the
\* number of samples of the table found in the outlier list differs from the
\* number of sample IDs in the list.
OutlierMismatchRaises ==
    (oq_pc \in {"raised", "returned"} /\ num_outliers_found # num_outliers) =>
        /\ oq_pc = "raised"
        /\ oq_error = "ValueError"

\* ----------------------------------------------------------- ADJ callrate
\* C24: a predetermined QC variant is kept for the ADJ callrate exactly when
\* more than 99% of the samples of the matrix have a defined genotype at it.
HighCallrateVariantsKept ==
    cr_pc \in {"callrate", "done"} =>
        \A v \in QcRows(qc_mt) :
            v \in qc_rows <=>
                100 * DefinedInRow(qc_mt, v) > 99 * Cardinality(QcCols(qc_mt))

\* -------------------------------------------------------- subpop_analysis
\* C25: run without --include_unreleasable_samples, the stage passes to the
\* subpopulation PCA the samples of the population that passed the earlier
\* filters and are releasable and not excluded, and no other sample.
OnlyReleasableSamplesInSubpopPca ==
    (sp_pc \in {"done", "raised"} /\ ~sp_args.include_unreleasable_samples) =>
        /\ pca_samples # None
        /\ Val(pca_samples) =
               {s \in Samples : /\ sp_meta[s].pop = "nfe"
                                /\ ~sp_meta[s].hard_filtered
                                /\ sp_meta[s].releasable
                                /\ ~sp_meta[s].exclude}

\* ------------------------------------------------------------ interval_qc
\* C26: the two matrices filter_to_test returns have as columns exactly the
\* samples present in both the coverage matrix and the sex coverage matrix.
ReturnsSharedColumns ==
    ft_pc = "returned" =>
        /\ ft_mt = ft_mt_in \cap ft_sex_mt_in
        /\ ft_sex_mt = ft_mt_in \cap ft_sex_mt_in

\* -------------------------------------------------- assign_ancestry, main
\* C27: after the --assign-pops stage completes, the population table and the
\* RF model pickle at the output paths come from the same run of assign_pops,
\* whatever --overwrite is and whether or not a population table existed.
PopTableAndModelFromSameRun ==
    am_pc = "done" =>
        /\ pop_ht_file # None
        /\ pop_rf_file # None
        /\ Val(pop_ht_file).run = Val(pop_rf_file).run

\* C28: one invocation of the interval_qc script runs main once, each
\* requested stage writes once, and a first run without --overwrite on an
\* empty output location ends without an error.
MainRunsOncePerInvocation ==
    iq_pc = "exit" =>
        /\ iq_main_calls = 1
        /\ iq_args.sex_imputation_interval_coverage => iq_writes = 1
        /\ ~iq_args.overwrite => iq_error = "none"

\* -------------------------------------------------------- add_annotations
\* C30: called with sample_count_match = True, add_annotations returns a
\* table with exactly the rows of ht, and whenever a sample is in one table,
\* not in the other and not on the matching approved-missing list, the
\* warnings list it, also when the two tables have as many rows.
UnapprovedMissingSamplesWarned ==
    (aa_pc = "returned" /\ sample_count_match) =>
        /\ DOMAIN aa_out = aa_ht
        /\ ((aa_ht \ aa_ann_ht) \ ann_ht_missing) \subseteq aa_warned
        /\ ((aa_ann_ht \ aa_ht) \ ht_missing) \subseteq aa_warned

====
